---- MODULE Spec2Model ----
(***************************************************************************)
(* Quadlet install / list / print / remove engine of podman                *)
(* (pkg/domain/infra/abi, src/unnamed/part_002) and its install and rm     *)
(* commands (src/unnamed/part_001), as a state machine over                *)
(*   - the quadlet files on disk in the search directories,                *)
(*   - the unit table of the service manager (systemd),                    *)
(*   - the position and the locals of the engine call in progress.         *)
(***************************************************************************)
EXTENDS Naturals, Sequences, FiniteSets, TLC

(***************************************************************************)
(* Bounds of the model                                                     *)
(***************************************************************************)
\* mutating engine calls (Install, Remove) per behaviour
MaxCalls == 1
\* length of the argument list of one Install or Remove call
MaxArgs == 2
\* quadlet files on disk in the initial state
MaxInitFiles == 2
\* changes made by other processes (systemctl, rm) per behaviour
MaxEnv == 1

(***************************************************************************)
(* Directories.  GetUnitDirs and UnitDirAdmin live in pkg/systemd/quadlet. *)
(***************************************************************************)
UnitDirAdmin == "/etc/containers/systemd"
DirShare == "/usr/share/containers/systemd"
DirConfig == "/home/u/.config/containers/systemd"
DirAdminUid == "/etc/containers/systemd/users/1000"
DirAdminUsers == "/etc/containers/systemd/users"
TmpDir == "/tmp"

\* systemdquadlet.GetUnitDirs(rootless): the search directories in precedence order
GetUnitDirs(isRootless) ==
  IF isRootless THEN <<DirConfig, DirAdminUid, DirAdminUsers>>
  ELSE <<UnitDirAdmin, DirShare>>

AllDirs == {UnitDirAdmin, DirShare, DirConfig, DirAdminUid, DirAdminUsers}

\* strings.HasPrefix(dir, systemdquadlet.UnitDirAdmin)
HasAdminPrefix(dir) == dir \in {UnitDirAdmin, DirAdminUid, DirAdminUsers}

Range(s) == {s[i] : i \in 1..Len(s)}

(***************************************************************************)
(* File names and paths                                                    *)
(***************************************************************************)
QuadletNames == {"a.container", "b.container"}
FileNames == QuadletNames \cup {"notes.txt"}
\* os.CreateTemp("", "quadlet-dl"): the i-th temporary file of a call
TmpName(i) == "quadlet-dl" \o ToString(i)
TmpNames == {TmpName(i) : i \in 1..(MaxArgs + 1)}
BaseNames == FileNames \cup TmpNames \cup {"missing.container"}

\* filepath.Join(dir, name); a name that is itself an absolute path keeps its
\* own slash, so no second separator is added
Join(dir, name) ==
  IF name \in BaseNames THEN dir \o "/" \o name ELSE dir \o name

\* every path dir/name with a file name the model uses
DiskPaths == {Join(d, n) : d \in AllDirs, n \in FileNames}
SrcDirs == {"/src", "/alt", TmpDir}
KnownPaths == {Join(d, n) : d \in AllDirs \cup SrcDirs, n \in BaseNames}
NestedPaths == {Join(d, p) : d \in AllDirs, p \in DiskPaths}

\* filepath.Base(path)
Base(path) ==
  IF path \in BaseNames THEN path
  ELSE IF path \in KnownPaths
    THEN CHOOSE n \in BaseNames : \E d \in AllDirs \cup SrcDirs : path = Join(d, n)
    ELSE CHOOSE n \in FileNames : \E d \in AllDirs, p \in AllDirs : path = Join(d, Join(p, n))

\* filepath.Dir(path) of a file in a search directory
DirOf(path) == CHOOSE d \in AllDirs : \E n \in FileNames : path = Join(d, n)

\* filepath.Ext(name)
Ext(path) ==
  LET n == Base(path) IN
    IF n \in {"a.container", "b.container", "missing.container"} THEN ".container"
    ELSE IF n = "notes.txt" THEN ".txt"
    ELSE ""

\* systemdquadlet.IsExtSupported: the allow-list of quadlet extensions
SupportedExtensions ==
  {".container", ".volume", ".kube", ".network", ".image", ".build", ".pod"}
IsExtSupported(path) == Ext(path) \in SupportedExtensions

(***************************************************************************)
(* File contents and the service name derived from them                    *)
(***************************************************************************)
NoFile == "<absent>"
Contents == {"u1", "u2", "bad"}
Services == {"s1.service", "s2.service"}

\* parser.ParseUnitFile + systemdquadlet.GetUnitServiceName on the content
\* of a unit: "" stands for the error either of them returns
UnitServiceName(content) ==
  IF content = "u1" THEN "s1" ELSE IF content = "u2" THEN "s2" ELSE ""

(***************************************************************************)
(* Unit states of the service manager                                      *)
(***************************************************************************)
NotFound == [LoadState |-> "not-found", ActiveState |-> "inactive", SubState |-> "dead"]
Inactive == [LoadState |-> "loaded", ActiveState |-> "inactive", SubState |-> "dead"]
Running == [LoadState |-> "loaded", ActiveState |-> "active", SubState |-> "running"]
UnitStates == {NotFound, Inactive, Running}

(***************************************************************************)
(* Go maps.  A nil map reads as empty; assigning to an entry of a nil map  *)
(* panics.                                                                 *)
(***************************************************************************)
NoEntries == [k \in {} |-> ""]
NilMap == [nil |-> TRUE, m |-> NoEntries]
EmptyMap == [nil |-> FALSE, m |-> NoEntries]
Keys(map) == DOMAIN map.m
MapPut(map, k, v) ==
  [nil |-> FALSE, m |-> [x \in (DOMAIN map.m) \cup {k} |-> IF x = k THEN v ELSE map.m[x]]]

VARIABLES
  mapsMade,    \* whether the report maps were made (FALSE in the engine as written)
  rootless,    \* rootless.IsRootless()
  dirState,    \* per directory: "absent", "file", "dir" (writable), "rodir"
  fs,          \* per path of DiskPaths: the content of the file, or NoFile
  tmpFiles,    \* temporary download files that exist
  units,       \* the unit table of the service manager
  stopJob,     \* the stop job the service manager has accepted and not yet finished
  pc,          \* position of the engine call in progress
  op,          \* the call in progress (or the last one): operation and arguments
  loc,         \* the locals of the call in progress
  ret,         \* what the last call returned
  events,      \* what the call in progress has asked of the service manager and the disk
  read,        \* what the last List or Print call returned
  calls,       \* mutating calls started so far
  envSteps,    \* changes by other processes so far
  installers   \* per concurrent Install call: its position and its report

vars == <<mapsMade, rootless, dirState, fs, tmpFiles, units, stopJob, pc, op, loc, ret,
          events, read, calls, envSteps, installers>>

(***************************************************************************)
(* The disk                                                                *)
(***************************************************************************)
IsDirectory(d) == dirState[d] \in {"dir", "rodir"}

\* os.Stat(path) == nil for a path under a search directory
Exists(path) == path \in DiskPaths /\ fs[path] # NoFile

\* os.Stat fails with an error other than "not exist" (ENOTDIR): a component
\* of the path is a regular file
StatNotDir(dir) == dirState[dir] = "file"

NameOrder == <<"a.container", "b.container", "notes.txt">>

RECURSIVE Flatten(_)
Flatten(ss) == IF ss = <<>> THEN <<>> ELSE Head(ss) \o Flatten(Tail(ss))

\* os.ReadDir(dir), filtered as in the inner loop of getAllQuadletPaths:
\* entries come sorted by file name; no entry of the model is a directory
QuadletsIn(dir) ==
  IF ~IsDirectory(dir) THEN <<>>
  ELSE SelectSeq([i \in 1..Len(NameOrder) |-> Join(dir, NameOrder[i])],
                 LAMBDA p : Exists(p) /\ IsExtSupported(Base(p)))

getAllQuadletPaths ==
  LET dirs == GetUnitDirs(rootless) IN
    Flatten([i \in 1..Len(dirs) |-> QuadletsIn(dirs[i])])

\* getQuadletServiceName(path): "" stands for the error return
getQuadletServiceName(path) ==
  LET name == UnitServiceName(fs[path]) IN
    IF name = "" THEN "" ELSE name \o ".service"

\* a search that goes on to the last directory that has the name
RECURSIVE FindLastDir(_, _)
FindLastDir(dirs, name) ==
  IF dirs = <<>> THEN [path |-> "", err |-> "could not locate quadlet"]
  ELSE IF Exists(Join(dirs[Len(dirs)], name))
    THEN [path |-> Join(dirs[Len(dirs)], name), err |-> ""]
  ELSE FindLastDir(SubSeq(dirs, 1, Len(dirs) - 1), name)

\* getQuadletByName(name): [path, err]; err = "" is the nil error
RECURSIVE FindInDirs(_, _)
FindInDirs(dirs, name) ==
  IF dirs = <<>> THEN [path |-> "", err |-> "could not locate quadlet"]
  ELSE IF StatNotDir(Head(dirs)) THEN [path |-> "", err |-> "cannot stat quadlet"]
  ELSE IF Exists(Join(Head(dirs), name)) THEN [path |-> Join(Head(dirs), name), err |-> ""]
  ELSE FindInDirs(Tail(dirs), name)

getQuadletByName(name) ==
  IF ~IsExtSupported(name) THEN [path |-> "", err |-> "not a supported quadlet file type"]
  ELSE FindInDirs(GetUnitDirs(rootless), name)

(***************************************************************************)
(* The service manager                                                     *)
(***************************************************************************)
\* conn.ListUnitsByNamesContext(names): one status per name asked, in order
ListUnitsByNames(names) ==
  [i \in 1..Len(names) |->
     [Name |-> names[i], LoadState |-> units[names[i]].LoadState,
      ActiveState |-> units[names[i]].ActiveState, SubState |-> units[names[i]].SubState]]

(***************************************************************************)
(* The state before any call                                               *)
(***************************************************************************)
Idle == pc \in {"idle", "done", "panicked"}

\* what a call leaves for the next one to look back on (history only)
NoPrevious ==
  [kind |-> "none", args |-> <<>>, report |-> FALSE, err |-> "", installed |-> {},
   lastErr |-> "", looped |-> FALSE, existing |-> {}, listed |-> FALSE, entries |-> <<>>]

NoOp == [kind |-> "none", args |-> <<>>, force |-> FALSE, all |-> FALSE,
         ignore |-> FALSE, reload |-> FALSE, prev |-> NoPrevious]

\* report := new(entities.QuadletRemoveReport) and
\* installReport := new(entities.QuadletInstallReport): the zero value of the
\* struct, whose map fields are nil maps
NewReportMap == IF mapsMade THEN EmptyMap ELSE NilMap

NoLocals ==
  [installDir |-> "", todo |-> <<>>, layers |-> <<>>, installed |-> NilMap,
   instErrors |-> NilMap, deferred |-> {}, validateErr |-> FALSE,
   allQuadletPaths |-> <<>>, allServiceNames |-> <<>>, runningQuadlets |-> <<>>,
   serviceNameToQuadletName |-> NoEntries, needReload |-> FALSE,
   statuses |-> <<>>, quadletName |-> "", toDelete |-> <<>>,
   removed |-> <<>>, rmErrors |-> NilMap, panic |-> FALSE,
   \* history of the call, read by the properties only
   looped |-> FALSE, lastErr |-> "", ref |-> "", quadlets |-> <<>>, missing |-> {},
   existing |-> {},
   derived |-> NoEntries, snapshot |-> <<>>]

NoReturn == [report |-> FALSE, err |-> ""]

\* the result of a List or Print call: err = "" is the nil error
NoRead == [kind |-> "none", filters |-> <<>>, name |-> "", err |-> "", queries |-> 0,
           asked |-> <<>>, statuses |-> <<>>, entries |-> <<>>, contents |-> ""]

\* the call that has just ended, and the List after it, as the next call
\* finds them
Previous ==
  IF op.kind = "none" THEN NoPrevious ELSE
  [kind |-> op.kind, args |-> op.args, report |-> ret.report, err |-> ret.err,
   installed |-> Keys(loc.installed), lastErr |-> loc.lastErr, looped |-> loc.looped,
   existing |-> loc.existing, listed |-> (read.kind = "list" /\ read.err = ""),
   entries |-> read.entries]

\* the file names present in some search directory
ExistingNames ==
  {n \in FileNames : \E i \in 1..Len(GetUnitDirs(rootless)) :
                       Exists(Join(GetUnitDirs(rootless)[i], n))}

\* quadlet files another process or an earlier call may have left on disk:
\* the same name in two directories, two names deriving one service, a unit
\* the parser rejects, a file that is no quadlet
SeedFiles(isRootless) ==
  LET d1 == GetUnitDirs(isRootless)[1]
      d2 == GetUnitDirs(isRootless)[2]
  IN {<<Join(d1, "a.container"), "u1">>, <<Join(d1, "a.container"), "bad">>,
      <<Join(d2, "a.container"), "u1">>, <<Join(d1, "b.container"), "u1">>,
      <<Join(d1, "b.container"), "u2">>, <<Join(d1, "notes.txt"), "u1">>}

DirScenarios(isRootless) ==
  IF isRootless
    THEN {[d \in AllDirs |-> IF d \in {DirConfig, DirAdminUid, DirAdminUsers} THEN "dir" ELSE "absent"],
          [d \in AllDirs |-> IF d = DirConfig THEN "dir" ELSE
                             IF d = DirAdminUid THEN "rodir" ELSE "absent"],
          [d \in AllDirs |-> IF d = DirAdminUsers THEN "file" ELSE
                             IF d = DirAdminUid THEN "dir" ELSE "absent"],
          [d \in AllDirs |-> IF d = DirConfig THEN "file" ELSE "absent"],
          [d \in AllDirs |-> "absent"]}
    ELSE {[d \in AllDirs |-> IF d \in {UnitDirAdmin, DirShare} THEN "dir" ELSE "absent"],
          [d \in AllDirs |-> IF d = UnitDirAdmin THEN "file" ELSE
                             IF d = DirShare THEN "dir" ELSE "absent"],
          [d \in AllDirs |-> "absent"]}

\* the disk before the first call: up to MaxInitFiles seed files, all in
\* directories that exist
InitDisk(modes, maxFiles) ==
  /\ rootless \in modes
  /\ dirState \in DirScenarios(rootless)
  /\ \E seeds \in SUBSET SeedFiles(rootless) :
       /\ Cardinality(seeds) <= maxFiles
       /\ \A s, t \in seeds : s[1] = t[1] => s = t
       /\ \A s \in seeds : dirState[DirOf(s[1])] \in {"dir", "rodir"}
       /\ fs = [p \in DiskPaths |->
                  IF \E s \in seeds : s[1] = p
                    THEN (CHOOSE s \in seeds : s[1] = p)[2] ELSE NoFile]
  /\ tmpFiles = {}

\* the unit table before the first call
InitUnits ==
  {[s \in Services |-> Running],
   [s \in Services |-> IF s = "s1.service" THEN Inactive ELSE Running],
   [s \in Services |-> IF s = "s1.service" THEN Running ELSE NotFound],
   [s \in Services |-> NotFound]}

\* two Install calls that run at the same time, each in a process of its own
Installers == {"first", "second"}

\* a call that has not started
NoInstaller ==
  [pc |-> "idle", path |-> "", finalPath |-> "", installed |-> NilMap,
   instErrors |-> NilMap, panic |-> FALSE]

InitRest ==
  /\ units \in InitUnits
  /\ stopJob = ""
  /\ pc = "idle"
  /\ op = NoOp
  /\ loc = NoLocals
  /\ ret = NoReturn
  /\ events = <<>>
  /\ read = NoRead
  /\ calls = 0
  /\ envSteps = 0
  /\ installers = [p \in Installers |-> NoInstaller]

Init == mapsMade = FALSE /\ InitDisk(BOOLEAN, MaxInitFiles) /\ InitRest

(***************************************************************************)
(* Other processes: systemctl start/stop by hand, a file removed by hand   *)
(***************************************************************************)
EnvSetUnit ==
  /\ envSteps < MaxEnv
  /\ Idle
  /\ stopJob = ""
  /\ \E s \in Services, st \in UnitStates :
       /\ units[s] # st
       /\ units' = [units EXCEPT ![s] = st]
  /\ envSteps' = envSteps + 1
  /\ UNCHANGED <<installers, mapsMade, rootless, dirState, fs, tmpFiles, stopJob, pc, op, loc, ret,
                 events, read, calls>>

EnvRemoveFile ==
  /\ envSteps < MaxEnv
  /\ pc \in {"rm_resolve", "rm_query"}
  /\ \E p \in DiskPaths :
       /\ fs[p] # NoFile
       /\ fs' = [fs EXCEPT ![p] = NoFile]
  /\ envSteps' = envSteps + 1
  /\ UNCHANGED <<installers, mapsMade, rootless, dirState, tmpFiles, units, stopJob, pc, op, loc, ret,
                 events, read, calls>>

(***************************************************************************)
(* QuadletList                                                             *)
(***************************************************************************)
\* options.Filters as the list command passes them: "name=value" strings;
\* fname = "" stands for a string without "="
FilterArgs ==
  {<<>>,
   <<[fname |-> "name", value |-> "a.container"]>>,
   <<[fname |-> "name", value |-> "a.container"], [fname |-> "name", value |-> "notes.txt"]>>,
   <<[fname |-> "status", value |-> "Not loaded"]>>,
   <<[fname |-> "name", value |-> "a.container"], [fname |-> "status", value |-> "Not loaded"]>>,
   <<[fname |-> "", value |-> "a.container"]>>}

\* util.StringMatchRegexSlice(name, values): some pattern matches the name;
\* the patterns of the model are literal names
StringMatchRegexSlice(name, values) == name \in values

\* the filter functions built from options.Filters: one per filter name
\* (filterMap groups the values by name); err # "" is the error return
FilterNames(filters) == {filters[i].fname : i \in 1..Len(filters)}
FilterValues(filters, fname) ==
  {filters[i].value : i \in {j \in 1..Len(filters) : filters[j].fname = fname}}
FilterError(filters) ==
  IF "" \in FilterNames(filters) THEN "invalid filter"
  ELSE IF FilterNames(filters) \ {"name"} # {} THEN "not a valid filter"
  ELSE ""

\* generateQuadletFilter(filter, filterValues) applied to an entry
generateQuadletFilter(fname, values, q) == StringMatchRegexSlice(q.Name, values)

\* the inner loop of the final pass of QuadletList: include starts true and
\* each filter is or-ed into it
Include(filters, q) ==
  TRUE \/ \E fname \in FilterNames(filters) :
            generateQuadletFilter(fname, FilterValues(filters, fname), q)

ZeroEntry == [Name |-> "", Path |-> "", Status |-> ""]

\* a file that does not parse reported like a unit that is not loaded
ParseErrorHidden(path) == "Not loaded"

\* err.Error() of the error getQuadletServiceName returns for the path
ParseErrorText(path) == "parsing Quadlet file " \o path

\* first loop of QuadletList over the enumerated paths: entries whose name
\* derivation fails are reported at once, the others wait in partialReports
\* under their service name (a later file of the same service replaces an
\* earlier one)
RECURSIVE ListDerive(_, _, _, _)
ListDerive(paths, reports, partial, names) ==
  IF paths = <<>> THEN [reports |-> reports, partial |-> partial, names |-> names]
  ELSE LET path == Head(paths)
           report == [Name |-> Base(path), Path |-> path, Status |-> ""]
           serviceName == getQuadletServiceName(path)
       IN IF serviceName = ""
            THEN ListDerive(Tail(paths),
                            Append(reports, [report EXCEPT !.Status = ParseErrorText(path)]),
                            partial, names)
            ELSE ListDerive(Tail(paths), reports,
                            [s \in (DOMAIN partial) \cup {serviceName} |->
                               IF s = serviceName THEN report ELSE partial[s]],
                            Append(names, serviceName))

\* a status text that forgets the load state
StatusTextUnloaded(unitStatus) == unitStatus.ActiveState \o "/" \o unitStatus.SubState

\* report.Status of the status loop: "Not loaded", or
\* fmt.Sprintf("%s/%s", unitStatus.ActiveState, unitStatus.SubState)
StatusText(unitStatus) ==
  IF unitStatus.LoadState # "loaded" THEN "Not loaded"
  ELSE unitStatus.ActiveState \o "/" \o unitStatus.SubState

\* second loop: one entry per status answered, taken out of partialReports
RECURSIVE ListReconcile(_, _, _)
ListReconcile(statuses, reports, partial) ==
  IF statuses = <<>> THEN [reports |-> reports, partial |-> partial]
  ELSE LET unitStatus == Head(statuses)
           report == IF unitStatus.Name \in DOMAIN partial
                       THEN partial[unitStatus.Name] ELSE ZeroEntry
           status == StatusText(unitStatus)
       IN ListReconcile(Tail(statuses),
                        Append(reports, [report EXCEPT !.Status = status]),
                        [s \in (DOMAIN partial) \ {unitStatus.Name} |-> partial[s]])

\* third loop: what is left in partialReports (the map is ranged over in
\* the order of the service names here)
RECURSIVE ListLeftover(_, _)
ListLeftover(reports, partial) ==
  IF DOMAIN partial = {} THEN reports
  ELSE LET s == CHOOSE x \in DOMAIN partial : TRUE IN
         ListLeftover(Append(reports, [partial[s] EXCEPT !.Status = "Not loaded"]),
                      [x \in (DOMAIN partial) \ {s} |-> partial[x]])

\* a status query that asks for no name
NoListNames == <<>>

\* allServiceNames of QuadletList: the names the status query asks for
ListNames == ListDerive(getAllQuadletPaths, <<>>, [s \in {} |-> ZeroEntry], <<>>).names

\* what the service manager may answer to the query: a status for every name
\* asked, or (the case the length check of QuadletList warns about) one less
ListAnswers(names) ==
  {ListUnitsByNames(names)} \cup
    (IF names = <<>> THEN {} ELSE {SubSeq(ListUnitsByNames(names), 1, Len(names) - 1)})

\* a List that hands out the entries of the List before it
CachedReports(filters, statuses) == read.entries

\* the entries QuadletList returns for the statuses answered
ListReportsFrom(filters, statuses) ==
  LET derived == ListDerive(getAllQuadletPaths, <<>>, [s \in {} |-> ZeroEntry], <<>>)
      reconciled == ListReconcile(statuses, derived.reports, derived.partial)
      reports == ListLeftover(reconciled.reports, reconciled.partial)
  IN SelectSeq(reports, LAMBDA q : Include(filters, q))

\* the entries QuadletList returns when every name asked is answered
ListReports(filters) == ListReportsFrom(filters, ListUnitsByNames(ListNames))

ListWith(filterArgs) ==
  /\ Idle
  /\ stopJob = ""
  /\ \E filters \in filterArgs, connected \in BOOLEAN, answered \in BOOLEAN,
        statuses \in ListAnswers(ListNames) :
       read' = [NoRead EXCEPT
                  !.kind = "list", !.filters = filters,
                  !.err = IF ~connected THEN "connecting to systemd dbus"
                          ELSE IF FilterError(filters) # "" THEN FilterError(filters)
                          ELSE IF ~answered THEN "querying systemd for unit status"
                          ELSE "",
                  !.queries = IF connected /\ FilterError(filters) = "" THEN 1 ELSE 0,
                  !.asked = IF connected /\ FilterError(filters) = "" THEN ListNames
                            ELSE <<>>,
                  !.statuses = IF connected /\ FilterError(filters) = "" /\ answered
                                 THEN statuses ELSE <<>>,
                  !.entries = IF connected /\ FilterError(filters) = "" /\ answered
                                THEN ListReportsFrom(filters, statuses) ELSE <<>>]
  /\ UNCHANGED <<installers, mapsMade, rootless, dirState, fs, tmpFiles, units, stopJob, pc, op, loc,
                 ret, events, calls, envSteps>>

QuadletList == ListWith(FilterArgs)

(***************************************************************************)
(* QuadletPrint                                                            *)
(***************************************************************************)
\* a read that takes the file away
ReadAndRemove(path) == [p \in DOMAIN fs |-> IF p = path THEN NoFile ELSE fs[p]]

\* the disk after os.ReadFile(path)
AfterReadFile(path) == fs

QuadletPrint ==
  /\ Idle
  /\ stopJob = ""
  /\ \E quadlet \in FileNames, readable \in BOOLEAN :
       LET found == getQuadletByName(quadlet) IN
         /\ read' = [NoRead EXCEPT
                       !.kind = "print", !.name = quadlet,
                       !.err = IF found.err # "" THEN found.err
                               ELSE IF ~readable THEN "reading quadlet contents" ELSE "",
                       !.contents = IF found.err = "" /\ readable THEN fs[found.path] ELSE ""]
         /\ fs' = IF found.err = "" THEN AfterReadFile(found.path) ELSE fs
  /\ UNCHANGED <<installers, mapsMade, rootless, dirState, tmpFiles, units, stopJob, pc, op, loc,
                 ret, events, calls, envSteps>>

(***************************************************************************)
(* Ending a call                                                           *)
(***************************************************************************)
ArgSeqs(S) == UNION {[1..n -> S] : n \in 0..MaxArgs}

Event(e, x) == [e |-> e, x |-> x]

\* ctx of the call in progress has been cancelled
Cancelled == Event("cancel", "") \in Range(events)

\* whether a call that is handed ctx may succeed: the service manager and the
\* artifact store refuse a request made with a cancelled ctx
CtxOutcomes == IF Cancelled THEN {FALSE} ELSE BOOLEAN

\* the process dies of "assignment to entry in nil map": no value is returned
Panicked == [report |-> FALSE, err |-> "panic: assignment to entry in nil map"]

\* a report returned where the code returns none
ReturnWithReport(err) == [report |-> TRUE, err |-> err]

\* return nil, err
ReturnError(err) == [report |-> FALSE, err |-> err]

\* the report dropped where the code returns it with the error
ReturnWithoutReport(err) == [report |-> FALSE, err |-> err]

\* return report, err (err = "" is nil)
ReturnReport(err) == [report |-> TRUE, err |-> err]

(***************************************************************************)
(* QuadletRemove                                                           *)
(***************************************************************************)
RmNames == FileNames

\* report.Errors[name] = err
SetRmError(l, name, err) ==
  IF l.rmErrors.nil THEN [l EXCEPT !.panic = TRUE]
  ELSE [l EXCEPT !.rmErrors = MapPut(@, name, err)]

\* a call that forgets the name it has dealt with
NotAddRemoved(l, name) == l

\* report.Removed = append(report.Removed, name)
AddRemoved(l, name) == [l EXCEPT !.removed = Append(@, name)]

\* an early escape that forgets the All option
NoQuadletsGiven(quadlets, all) == Len(quadlets) = 0

\* len(quadlets) == 0 && !options.All
NoQuadletsRequested(quadlets, all) == Len(quadlets) = 0 /\ ~all

\* the early escape, the connection and the substitution of the names under All
RemoveBegin(quadlets, force, all, ignore, reload, connected) ==
  /\ Idle
  /\ stopJob = ""
  /\ op' = [kind |-> "remove", args |-> quadlets, force |-> force, all |-> all,
            ignore |-> ignore, reload |-> reload, prev |-> Previous]
  /\ IF NoQuadletsRequested(quadlets, all)
       THEN /\ ret' = ReturnError("must provide at least 1 quadlet to remove")
            /\ pc' = "done"
            /\ loc' = [NoLocals EXCEPT !.rmErrors = NewReportMap]
       ELSE IF ~connected
       THEN /\ ret' = ReturnError("connecting to systemd dbus")
            /\ pc' = "done"
            /\ loc' = [NoLocals EXCEPT !.rmErrors = NewReportMap]
       ELSE /\ ret' = NoReturn
            /\ pc' = "rm_resolve"
            /\ loc' = [NoLocals EXCEPT !.rmErrors = NewReportMap,
                                       !.todo = IF all THEN getAllQuadletPaths
                                                ELSE quadlets,
                                       !.quadlets = IF all THEN getAllQuadletPaths
                                                    ELSE quadlets]
  /\ calls' = calls + 1
  /\ events' = <<>>
  /\ read' = NoRead
  /\ UNCHANGED <<installers, mapsMade, rootless, dirState, fs, tmpFiles, units, stopJob, envSteps>>

RemoveStart ==
  /\ calls < MaxCalls
  /\ \E quadlets \in ArgSeqs(RmNames), force, all, ignore, reload, connected \in BOOLEAN :
       RemoveBegin(quadlets, force, all, ignore, reload, connected)

\* the loop over the requested quadlets: resolution and name derivation
RECURSIVE RmResolve(_)
RmResolve(l) ==
  IF l.todo = <<>> \/ l.panic THEN l
  ELSE LET quadlet == Head(l.todo)
           rest == [l EXCEPT !.todo = Tail(@)]
           found == getQuadletByName(quadlet)
           serviceName == getQuadletServiceName(found.path)
           withPath == [rest EXCEPT !.allQuadletPaths = Append(@, found.path)]
       IN IF found.err # ""
            THEN IF op.ignore \/ op.all
                   THEN RmResolve(AddRemoved([rest EXCEPT !.missing = @ \cup {quadlet}], quadlet))
                   ELSE RmResolve(SetRmError([rest EXCEPT !.missing = @ \cup {quadlet}],
                                             quadlet, found.err))
          ELSE IF serviceName = ""
            THEN RmResolve(SetRmError(withPath, quadlet, "parsing Quadlet file"))
          ELSE RmResolve(
                 [withPath EXCEPT
                    !.allServiceNames = Append(@, serviceName),
                    !.serviceNameToQuadletName =
                       [s \in (DOMAIN @) \cup {serviceName} |->
                          IF s = serviceName THEN quadlet ELSE @[s]],
                    !.derived =
                       [q \in (DOMAIN @) \cup {found.path} |->
                          IF q = found.path THEN serviceName ELSE @[q]]])

RemoveResolve ==
  /\ pc = "rm_resolve"
  /\ LET l == RmResolve([loc EXCEPT !.looped = TRUE]) IN
       /\ loc' = l
       /\ pc' = IF l.panic THEN "panicked" ELSE "rm_query"
       /\ ret' = IF l.panic THEN Panicked ELSE ret
  /\ UNCHANGED <<installers, mapsMade, rootless, dirState, fs, tmpFiles, units, stopJob, op, events,
                 read, calls, envSteps>>

\* the one status query of the call, skipped when no service name was derived
RemoveQuery ==
  /\ pc = "rm_query"
  /\ IF Len(loc.allServiceNames) = 0
       THEN /\ pc' = "rm_delete"
            /\ loc' = [loc EXCEPT !.toDelete = loc.allQuadletPaths]
            /\ UNCHANGED <<ret, events>>
       ELSE \E answered \in CtxOutcomes :
              IF answered
                THEN /\ pc' = "rm_status"
                     /\ loc' = [loc EXCEPT !.statuses = ListUnitsByNames(loc.allServiceNames),
                                            !.snapshot = ListUnitsByNames(loc.allServiceNames)]
                     /\ events' = Append(events, Event("query", "answered"))
                     /\ ret' = ret
                ELSE /\ pc' = "done"
                     /\ ret' = ReturnError("querying systemd for unit status")
                     /\ events' = Append(events, Event("query", "failed"))
                     /\ loc' = loc
  /\ UNCHANGED <<installers, mapsMade, rootless, dirState, fs, tmpFiles, units, stopJob, op, read, calls,
                 envSteps>>

\* a call that goes on with the next unit without waiting
NextUnitAtOnce == "rm_status"

\* stopResult := <-ch: the call blocks until the stop job has ended
AfterStopRequest == "rm_wait"

\* one round of the loop over the statuses, up to the wait for the stop job
RemoveStatus ==
  /\ pc = "rm_status"
  /\ IF loc.statuses = <<>>
       THEN /\ pc' = "rm_delete"
            /\ loc' = [loc EXCEPT !.toDelete = loc.allQuadletPaths]
            /\ UNCHANGED <<ret, events, stopJob>>
       ELSE LET unitStatus == Head(loc.statuses)
                quadletName == loc.serviceNameToQuadletName[unitStatus.Name]
                next == [loc EXCEPT !.statuses = Tail(@), !.quadletName = quadletName]
            IN IF unitStatus.LoadState # "loaded"
                 THEN /\ loc' = next
                      /\ UNCHANGED <<pc, ret, events, stopJob>>
               ELSE IF unitStatus.ActiveState # "active"
                 THEN /\ loc' = [next EXCEPT !.needReload = TRUE]
                      /\ UNCHANGED <<pc, ret, events, stopJob>>
               ELSE IF ~op.force
                 THEN LET l == SetRmError([next EXCEPT !.needReload = TRUE], quadletName,
                                          "is running and force is not set")
                      IN /\ loc' = IF l.panic THEN l
                                   ELSE [l EXCEPT !.runningQuadlets = Append(@, quadletName)]
                         /\ pc' = IF l.panic THEN "panicked" ELSE pc
                         /\ ret' = IF l.panic THEN Panicked ELSE ret
                         /\ UNCHANGED <<events, stopJob>>
               ELSE \E accepted \in CtxOutcomes :
                      IF accepted
                        THEN /\ stopJob' = unitStatus.Name
                             /\ events' = Append(events, Event("stop", unitStatus.Name))
                             /\ loc' = [next EXCEPT !.needReload = TRUE]
                             /\ pc' = AfterStopRequest
                             /\ ret' = ret
                        ELSE LET l == SetRmError([next EXCEPT !.needReload = TRUE],
                                                 quadletName, "stopping quadlet")
                             IN /\ loc' = IF l.panic THEN l
                                          ELSE [l EXCEPT !.runningQuadlets =
                                                           Append(@, quadletName)]
                                /\ pc' = IF l.panic THEN "panicked" ELSE pc
                                /\ ret' = IF l.panic THEN Panicked ELSE ret
                                /\ events' = Append(events, Event("stopfailed", unitStatus.Name))
                                /\ stopJob' = stopJob
  /\ UNCHANGED <<installers, mapsMade, rootless, dirState, fs, tmpFiles, units, op, read, calls, envSteps>>

\* a service manager that never signals the end of a stop job
NoStopResults == {}

\* results a stop job ends with; "skipped" is the result of a job for a unit
\* that is not active any more
StopResults == {"done", "skipped", "failed", "timeout"}

\* the service manager ends the stop job and its result arrives on ch
RemoveStopResult ==
  /\ pc = "rm_wait"
  /\ stopJob # ""
  /\ \E stopResult \in StopResults :
       /\ stopResult = "skipped" => units[stopJob].ActiveState # "active"
       /\ units' = IF stopResult = "done" THEN [units EXCEPT ![stopJob] = Inactive]
                   ELSE units
       /\ events' = Append(events, Event("stop " \o stopResult, stopJob))
       /\ IF stopResult # "done" /\ stopResult # "skipped"
            THEN LET l == SetRmError(loc, loc.quadletName, "unable to stop quadlet")
                 IN /\ loc' = IF l.panic THEN l
                              ELSE [l EXCEPT !.runningQuadlets = Append(@, loc.quadletName)]
                    /\ pc' = IF l.panic THEN "panicked" ELSE "rm_status"
                    /\ ret' = IF l.panic THEN Panicked ELSE ret
            ELSE /\ pc' = "rm_status"
                 /\ UNCHANGED <<loc, ret>>
  /\ stopJob' = ""
  /\ UNCHANGED <<installers, mapsMade, rootless, dirState, fs, tmpFiles, op, read, calls, envSteps>>

\* one round of the loop that removes the files
RemoveDelete ==
  /\ pc = "rm_delete"
  /\ IF loc.toDelete = <<>>
       THEN /\ pc' = "rm_reload"
            /\ UNCHANGED <<loc, ret, events, fs>>
       ELSE LET path == Head(loc.toDelete)
                quadletName == Base(path)
                next == [loc EXCEPT !.toDelete = Tail(@)]
            IN IF quadletName \in Range(loc.runningQuadlets)
                 THEN /\ loc' = next
                      /\ UNCHANGED <<pc, ret, events, fs>>
               ELSE IF ~Exists(path)
                 THEN /\ loc' = AddRemoved(next, quadletName)
                      /\ events' = Append(events, Event("already gone", path))
                      /\ UNCHANGED <<pc, ret, fs>>
               ELSE \E removable \in BOOLEAN :
                      IF removable /\ dirState[DirOf(path)] = "dir"
                        THEN /\ fs' = [fs EXCEPT ![path] = NoFile]
                             /\ events' = Append(events, Event("delete", path))
                             /\ loc' = AddRemoved(next, quadletName)
                             /\ UNCHANGED <<pc, ret>>
                        ELSE LET l == SetRmError(next, quadletName, "removing quadlet")
                             IN /\ loc' = l
                                /\ pc' = IF l.panic THEN "panicked" ELSE pc
                                /\ ret' = IF l.panic THEN Panicked ELSE ret
                                /\ events' = Append(events, Event("delete failed", path))
                                /\ fs' = fs
  /\ UNCHANGED <<installers, mapsMade, rootless, dirState, tmpFiles, units, stopJob, op, read, calls,
                 envSteps>>

\* a reload decided by the option of the call alone
ReloadAsked(l) == op.reload

\* if needReload
ReloadNeeded(l) == l.needReload

\* the reload at the end, and the return of the report
RemoveReload ==
  /\ pc = "rm_reload"
  /\ IF ReloadNeeded(loc)
       THEN \E reloaded \in CtxOutcomes :
              /\ events' = Append(events, Event("reload", IF reloaded THEN "ok" ELSE "failed"))
              /\ ret' = ReturnReport(IF reloaded THEN "" ELSE "reloading systemd")
       ELSE /\ ret' = ReturnReport("")
            /\ events' = events
  /\ pc' = "done"
  /\ UNCHANGED <<installers, mapsMade, rootless, dirState, fs, tmpFiles, units, stopJob, op, loc, read,
                 calls, envSteps>>


(***************************************************************************)
(* QuadletInstall                                                          *)
(***************************************************************************)
\* the source references of the model
LocalRefs == {"/src/a.container", "/alt/a.container", "/src/notes.txt",
              "/src/missing.container"}
UrlRefs == {"https://example.com/b.container"}
OciRefs == {"oci-artifact://quadlets", "oci-artifact://empty"}
Refs == LocalRefs \cup UrlRefs \cup OciRefs

\* strings.HasPrefix(toInstall, "oci-artifact://"), and "http://" or "https://"
IsOciRef(ref) == ref \in OciRefs
IsUrlRef(ref) == ref \in UrlRefs

\* as.GetLayers(ctx, artName): file name and path on disk of each layer
Layers(ref) ==
  IF ref = "oci-artifact://quadlets"
    THEN {[filename |-> "b.container", pathOnDisk |-> "/store/blob1"],
          [filename |-> "notes.txt", pathOnDisk |-> "/store/blob2"]}
    ELSE {}

\* the orders in which a range over the map of layers may visit them
LayerOrders(ref) ==
  {order \in [1..Cardinality(Layers(ref)) -> Layers(ref)] :
     \A i, j \in 1..Cardinality(Layers(ref)) : order[i] = order[j] => i = j}

\* the file a source path names: content "" when there is none; none of
\* the sources is a directory, and a temporary file is read right after its
\* download
SourceContent(path) ==
  IF path = "/src/a.container" THEN "u1"
  ELSE IF path = "/alt/a.container" THEN "u2"
  ELSE IF path = "/src/notes.txt" THEN "u1"
  ELSE IF path \in {"/store/blob1", "/store/blob2"} THEN "u2"
  ELSE IF path \in {Join(TmpDir, n) : n \in TmpNames} THEN "u2"
  ELSE ""

\* local source files that exist, with a quadlet extension
ValidSources == {ref \in LocalRefs : SourceContent(ref) # "" /\ IsExtSupported(ref)}

\* the loop of QuadletInstall that picks the install directory of a rootless
\* user: installDir and foundAdminDir after the directories given
RECURSIVE PickInstallDir(_, _, _)
PickInstallDir(dirs, installDir, foundAdminDir) ==
  IF dirs = <<>> THEN installDir
  ELSE LET dir == Head(dirs)
           usable == HasAdminPrefix(dir) /\ dirState[dir] = "dir"
           found == foundAdminDir \/ usable
       IN IF HasAdminPrefix(dir) /\ ~IsDirectory(dir)
            THEN PickInstallDir(Tail(dirs), installDir, foundAdminDir)
            ELSE PickInstallDir(Tail(dirs),
                                IF ~found THEN dir ELSE IF usable THEN dir ELSE installDir,
                                found)

InstallDir ==
  IF rootless THEN PickInstallDir(GetUnitDirs(TRUE), UnitDirAdmin, FALSE)
  ELSE UnitDirAdmin

\* installQuadlet(ctx, path, destName, installDir) when the copy succeeds
\* (copied) or fails: the final path and the error ("" is nil)
installQuadlet(path, destName, installDir, copied) ==
  LET finalPath == IF destName # "" THEN Join(installDir, destName)
                   ELSE Join(installDir, Base(path))
  IN IF SourceContent(path) = ""
       THEN [finalPath |-> "", err |-> "does not exist or cannot be read"]
     ELSE IF Exists(finalPath)
       THEN [finalPath |-> "", err |-> "already exists, refusing to overwrite"]
     ELSE IF ~IsExtSupported(finalPath)
       THEN [finalPath |-> "", err |-> "is not a supported Quadlet file type"]
     ELSE IF ~copied \/ dirState[installDir] # "dir"
       THEN [finalPath |-> "", err |-> "writing Quadlet"]
     ELSE [finalPath |-> finalPath, err |-> ""]

\* installReport.QuadletErrors[key] = err
SetInstError(l, key, err) ==
  IF l.instErrors.nil THEN [l EXCEPT !.panic = TRUE]
  ELSE [l EXCEPT !.instErrors = MapPut(@, key, err)]

\* installReport.InstalledQuadlets[key] = path
SetInstalled(l, key, path) ==
  IF l.installed.nil THEN [l EXCEPT !.panic = TRUE]
  ELSE [l EXCEPT !.installed = MapPut(@, key, path)]

\* the outcome of one installQuadlet call, recorded under key
Recorded(l, key, result) ==
  IF result.err # "" THEN SetInstError([l EXCEPT !.lastErr = result.err], key, result.err)
  ELSE SetInstalled([l EXCEPT !.lastErr = ""], key, result.finalPath)

\* the disk after one installQuadlet call
Written(result, path) ==
  IF result.err = "" THEN [fs EXCEPT ![result.finalPath] = SourceContent(path)] ELSE fs

\* the os.WriteFile call of installQuadlet, as the call's history has it
WriteEvents(result) ==
  IF result.err = "" THEN <<Event("write", result.finalPath)>> ELSE <<>>

\* the deferred functions left out: the temporary files stay
WithoutDefers(files, l) == files

\* the deferred functions of the call, run when it returns or panics: of the
\* temporary files that exist, those of the call are removed
AfterDefers(files, l) == files \ l.deferred

\* from the connection to the first source reference
InstallStart ==
  /\ Idle
  /\ stopJob = ""
  /\ calls < MaxCalls
  /\ \E pathsOrURLs \in ArgSeqs(Refs), reloadSystemd, made \in BOOLEAN,
        pre \in {"ok", "no connection", "no generator", "invalid generator",
                 "no artifact store"} :
       LET installDir == InstallDir
           mkdir == rootless /\ dirState[installDir] = "absent"
           begun == pre \in {"ok", "no artifact store"}
       IN /\ op' = [NoOp EXCEPT !.kind = "install", !.args = pathsOrURLs,
                                !.reload = reloadSystemd, !.prev = Previous]
          /\ loc' = [NoLocals EXCEPT !.installDir = IF begun THEN installDir ELSE "",
                                     !.existing = ExistingNames,
                                     !.installed = NewReportMap,
                                     !.instErrors = NewReportMap,
                                     !.todo = pathsOrURLs,
                                     !.quadlets = pathsOrURLs]
          /\ dirState' = IF begun /\ mkdir /\ made
                           THEN [dirState EXCEPT ![installDir] = "dir"] ELSE dirState
          /\ IF pre = "no connection"
               THEN ret' = ReturnError("connecting to systemd dbus") /\ pc' = "done"
             ELSE IF pre = "no generator"
               THEN ret' = ReturnError("cannot stat Quadlet generator") /\ pc' = "done"
             ELSE IF pre = "invalid generator"
               THEN ret' = ReturnError("no valid Quadlet binary installed") /\ pc' = "done"
             ELSE IF mkdir /\ ~made
               THEN ret' = ReturnError("unable to create Quadlet install path") /\ pc' = "done"
             ELSE IF ~rootless /\ dirState[installDir] = "absent"
               THEN ret' = ReturnError("unable to stat Quadlet install path") /\ pc' = "done"
             ELSE IF ~rootless /\ ~IsDirectory(installDir)
               THEN ret' = ReturnError("install path for Quadlets is not a directory")
                    /\ pc' = "done"
             ELSE IF pre = "no artifact store"
               THEN ret' = ReturnError("artifact store") /\ pc' = "done"
             ELSE ret' = NoReturn /\ pc' = "inst_loop"
  /\ calls' = calls + 1
  /\ events' = <<>>
  /\ read' = NoRead
  /\ UNCHANGED <<installers, mapsMade, rootless, fs, tmpFiles, units, stopJob, envSteps>>

\* one round of the loop over the source references, or over the layers of
\* the artifact being installed
InstallItem ==
  /\ pc = "inst_loop"
  /\ loc.layers # <<>> \/ loc.todo # <<>>
  /\ IF loc.layers # <<>>
       THEN \E copied \in BOOLEAN :
              LET layer == Head(loc.layers)
                  result == installQuadlet(layer.pathOnDisk, layer.filename,
                                           loc.installDir, copied)
                  l == Recorded([loc EXCEPT !.layers = Tail(@), !.looped = TRUE],
                                layer.pathOnDisk, result)
              IN /\ fs' = Written(result, layer.pathOnDisk)
                 /\ loc' = l
                 /\ pc' = IF l.panic THEN "panicked" ELSE pc
                 /\ ret' = IF l.panic THEN Panicked ELSE ret
                 /\ tmpFiles' = IF l.panic THEN AfterDefers(tmpFiles, l) ELSE tmpFiles
                 /\ events' = events \o WriteEvents(result)
       ELSE LET toInstall == Head(loc.todo)
                next == [loc EXCEPT !.todo = Tail(@), !.looped = TRUE, !.ref = toInstall]
            IN IF IsOciRef(toInstall)
                 THEN \E fetched \in CtxOutcomes :
                        IF fetched
                          THEN /\ \E order \in LayerOrders(toInstall) :
                                    loc' = [next EXCEPT !.layers = order, !.lastErr = ""]
                               /\ events' = Append(events, Event("fetch", toInstall))
                               /\ UNCHANGED <<fs, pc, ret, tmpFiles>>
                          ELSE /\ ret' = ReturnError("retrieving OCI artifact")
                               /\ pc' = "done"
                               /\ loc' = [next EXCEPT !.lastErr = "retrieving OCI artifact"]
                               /\ tmpFiles' = AfterDefers(tmpFiles, loc)
                               /\ events' = Append(events, Event("fetch failed", toInstall))
                               /\ fs' = fs
               ELSE IF IsUrlRef(toInstall)
                 THEN \E download \in {"no temporary file", "no download", "no copy",
                                       "downloaded"}, copied \in BOOLEAN :
                        LET tmpFile == Join(TmpDir, TmpName(Cardinality(loc.deferred) + 1))
                            created == download # "no temporary file"
                            withDefer == IF created
                                           THEN [next EXCEPT !.deferred = @ \cup {tmpFile}]
                                           ELSE next
                            result == installQuadlet(tmpFile, "", loc.installDir, copied)
                            l == IF download = "downloaded"
                                   THEN Recorded(withDefer, toInstall, result)
                                   ELSE SetInstError([withDefer EXCEPT !.lastErr = download],
                                                     toInstall, download)
                        IN /\ loc' = l
                           /\ events' = Append(events, Event("fetch", toInstall))
                                          \o (IF download = "downloaded"
                                                THEN WriteEvents(result) ELSE <<>>)
                           /\ fs' = IF download = "downloaded" THEN Written(result, tmpFile)
                                    ELSE fs
                           /\ pc' = IF l.panic THEN "panicked" ELSE pc
                           /\ ret' = IF l.panic THEN Panicked ELSE ret
                           /\ tmpFiles' =
                                LET files == IF created THEN tmpFiles \cup {tmpFile}
                                             ELSE tmpFiles
                                IN IF l.panic THEN AfterDefers(files, l) ELSE files
               ELSE \E copied \in BOOLEAN :
                      LET result == installQuadlet(toInstall, "", loc.installDir, copied)
                          l == Recorded(next, toInstall, result)
                      IN /\ fs' = Written(result, toInstall)
                         /\ loc' = l
                         /\ pc' = IF l.panic THEN "panicked" ELSE pc
                         /\ ret' = IF l.panic THEN Panicked ELSE ret
                         /\ tmpFiles' = IF l.panic THEN AfterDefers(tmpFiles, l) ELSE tmpFiles
                         /\ events' = events \o WriteEvents(result)
  /\ UNCHANGED <<installers, mapsMade, rootless, dirState, units, stopJob, op, read, calls, envSteps>>

\* after the loop: the dry run of the generator, the reload, the return
InstallFinish ==
  /\ pc = "inst_loop"
  /\ loc.layers = <<>> /\ loc.todo = <<>>
  /\ \E valid \in BOOLEAN, reloaded \in CtxOutcomes :
       /\ loc' = [loc EXCEPT !.validateErr = ~valid]
       /\ events' = events \o <<Event("validate", IF valid THEN "ok" ELSE "failed")>>
                      \o (IF op.reload
                            THEN <<Event("reload", IF reloaded THEN "ok" ELSE "failed")>>
                            ELSE <<>>)
       /\ ret' = IF op.reload /\ ~reloaded THEN ReturnReport("reloading systemd")
                 ELSE IF ~valid THEN ReturnReport("validating Quadlet syntax failed")
                 ELSE ReturnReport("")
  /\ pc' = "done"
  /\ tmpFiles' = AfterDefers(tmpFiles, loc)
  /\ UNCHANGED <<installers, mapsMade, rootless, dirState, fs, units, stopJob, op, read, calls, envSteps>>

Next ==
  \/ EnvSetUnit
  \/ EnvRemoveFile
  \/ QuadletList
  \/ QuadletPrint
  \/ RemoveStart
  \/ RemoveResolve
  \/ RemoveQuery
  \/ RemoveStatus
  \/ RemoveStopResult
  \/ RemoveDelete
  \/ RemoveReload
  \/ InstallStart
  \/ InstallItem
  \/ InstallFinish

Spec == Init /\ [][Next]_vars

(***************************************************************************)
(* One Remove call of a rootless user, a file removed by another process   *)
(* while it runs, and a List after it                                      *)
(***************************************************************************)
ListAfterRemove == pc = "done" /\ op.kind = "remove" /\ read.kind = "none" /\ ListWith({<<>>})

NextRemove ==
  \/ EnvRemoveFile
  \/ RemoveStart
  \/ RemoveResolve
  \/ RemoveQuery
  \/ RemoveStatus
  \/ RemoveStopResult
  \/ RemoveDelete
  \/ RemoveReload
  \/ ListAfterRemove

InitRemove == mapsMade = FALSE /\ InitDisk({TRUE}, MaxInitFiles) /\ InitRest

SpecRemove == InitRemove /\ [][NextRemove]_vars

\* the same call with the maps of the report made (make(map[string]error))
InitRemoveMade == mapsMade = TRUE /\ InitDisk({TRUE}, MaxInitFiles) /\ InitRest

SpecRemoveMade == InitRemoveMade /\ [][NextRemove]_vars

\* the steps of the call itself: the code runs on until it blocks or ends
RemoveRuns ==
  RemoveResolve \/ RemoveQuery \/ RemoveStatus \/ RemoveDelete \/ RemoveReload

\* one Remove call and nothing else, on a disk with fewer files
NextRemoveCall == RemoveStart \/ RemoveRuns \/ RemoveStopResult

InitRemoveCall == mapsMade = FALSE /\ InitDisk({TRUE}, MaxInitFiles - 1) /\ InitRest

\* the call keeps running, and the service manager ends every stop job it
\* accepted
SpecRemoveFair ==
  InitRemoveCall /\ [][NextRemoveCall]_vars
    /\ WF_vars(RemoveRuns) /\ WF_vars(RemoveStopResult)

\* the call keeps running, but a stop job may never end
SpecRemoveNoSignal == InitRemoveCall /\ [][NextRemoveCall]_vars /\ WF_vars(RemoveRuns)

(***************************************************************************)
(* One Install call, as root or rootless, and a List after it              *)
(***************************************************************************)
ListAfterInstall == pc = "done" /\ op.kind = "install" /\ read.kind = "none" /\ ListWith({<<>>})

NextInstall ==
  \/ InstallStart
  \/ InstallItem
  \/ InstallFinish
  \/ ListAfterInstall

SpecInstall == Init /\ [][NextInstall]_vars

InitMade == mapsMade = TRUE /\ InitDisk(BOOLEAN, MaxInitFiles) /\ InitRest

SpecInstallMade == InitMade /\ [][NextInstall]_vars

(***************************************************************************)
(* One Install call, a List, and a Remove with default options of the file *)
(* name of one of the local files the Install was given                    *)
(***************************************************************************)
RemoveInstalled ==
  /\ op.kind = "install"
  /\ \E i \in 1..Len(op.args), connected \in BOOLEAN :
       /\ op.args[i] \in LocalRefs
       /\ RemoveBegin(<<Base(op.args[i])>>, FALSE, FALSE, FALSE, FALSE, connected)

NextRoundTrip ==
  \/ InstallStart
  \/ InstallItem
  \/ InstallFinish
  \/ ListAfterInstall
  \/ RemoveInstalled
  \/ RemoveResolve
  \/ RemoveQuery
  \/ RemoveStatus
  \/ RemoveDelete
  \/ RemoveReload

InitRoundTrip == mapsMade = FALSE /\ InitDisk(BOOLEAN, MaxInitFiles - 1) /\ InitRest

SpecRoundTrip == InitRoundTrip /\ [][NextRoundTrip]_vars

InitRoundTripMade == mapsMade = TRUE /\ InitDisk(BOOLEAN, MaxInitFiles - 1) /\ InitRest

SpecRoundTripMade == InitRoundTripMade /\ [][NextRoundTrip]_vars

(***************************************************************************)
(* One call of any operation: a List before it, an Install or a Remove,    *)
(* a List after it                                                         *)
(***************************************************************************)
ListBefore == pc = "idle" /\ QuadletList

NextCalls ==
  \/ ListBefore
  \/ RemoveStart
  \/ RemoveResolve
  \/ RemoveQuery
  \/ RemoveStatus
  \/ RemoveStopResult
  \/ RemoveDelete
  \/ RemoveReload
  \/ ListAfterRemove
  \/ InstallStart
  \/ InstallItem
  \/ InstallFinish
  \/ ListAfterInstall

SpecCalls == InitRoundTrip /\ [][NextCalls]_vars

(***************************************************************************)
(* Two Install calls of one local file each that run at the same time:     *)
(* installQuadlet split at the points where the other call can run         *)
(***************************************************************************)
\* the outcome of the call once installQuadlet has been recorded, or has died
InstallerAfter(l) == [l EXCEPT !.pc = IF l.panic THEN "panicked" ELSE "done"]

\* the call starts with its report and its reference, up to the os.Stat of
\* the source
ConcurrentStart ==
  /\ Idle
  /\ \E p \in Installers, path \in ValidSources :
       /\ installers[p].pc = "idle"
       /\ installers' = [installers EXCEPT
                           ![p] = [NoInstaller EXCEPT
                                     !.pc = "check", !.path = path,
                                     !.finalPath = Join(InstallDir, Base(path)),
                                     !.installed = NewReportMap,
                                     !.instErrors = NewReportMap]]
  /\ UNCHANGED <<mapsMade, rootless, dirState, fs, tmpFiles, units, stopJob, pc, op, loc,
                 ret, events, read, calls, envSteps>>

\* os.Stat(finalPath): the destination must not exist
ConcurrentCheck ==
  /\ \E p \in Installers :
       LET l == installers[p] IN
         /\ l.pc = "check"
         /\ IF Exists(l.finalPath)
              THEN installers' =
                     [installers EXCEPT
                        ![p] = InstallerAfter(SetInstError(l, l.path,
                                                "already exists, refusing to overwrite"))]
              ELSE installers' = [installers EXCEPT ![p].pc = "write"]
         /\ events' = Append(events, Event(IF Exists(l.finalPath) THEN "refused"
                                           ELSE "checked", p))
  /\ UNCHANGED <<mapsMade, rootless, dirState, fs, tmpFiles, units, stopJob, pc, op, loc,
                 ret, read, calls, envSteps>>

\* os.ReadFile(path), os.WriteFile(finalPath, contents, 0644), and the
\* outcome recorded in the report
ConcurrentWrite ==
  /\ \E p \in Installers :
       LET l == installers[p] IN
         /\ l.pc = "write"
         /\ IF dirState[InstallDir] = "dir"
              THEN /\ fs' = [fs EXCEPT ![l.finalPath] = SourceContent(l.path)]
                   /\ installers' =
                        [installers EXCEPT
                           ![p] = InstallerAfter(SetInstalled(l, l.path, l.finalPath))]
                   /\ events' = Append(events, Event("written", p))
              ELSE /\ fs' = fs
                   /\ installers' =
                        [installers EXCEPT
                           ![p] = InstallerAfter(SetInstError(l, l.path, "writing Quadlet"))]
                   /\ events' = Append(events, Event("not written", p))
  /\ UNCHANGED <<mapsMade, rootless, dirState, tmpFiles, units, stopJob, pc, op, loc,
                 ret, read, calls, envSteps>>

NextConcurrent == ConcurrentStart \/ ConcurrentCheck \/ ConcurrentWrite

SpecConcurrent == InitRoundTrip /\ [][NextConcurrent]_vars

SpecConcurrentMade == InitRoundTripMade /\ [][NextConcurrent]_vars

(***************************************************************************)
(* One Install or Remove call whose caller cancels ctx while it runs       *)
(***************************************************************************)
CancelRequest ==
  /\ pc \notin {"idle", "done", "panicked"}
  /\ ~Cancelled
  /\ events' = Append(events, Event("cancel", ""))
  /\ UNCHANGED <<installers, mapsMade, rootless, dirState, fs, tmpFiles, units, stopJob, pc, op, loc,
                 ret, read, calls, envSteps>>

NextCancel ==
  \/ CancelRequest
  \/ RemoveStart
  \/ RemoveResolve
  \/ RemoveQuery
  \/ RemoveStatus
  \/ RemoveStopResult
  \/ RemoveDelete
  \/ RemoveReload
  \/ InstallStart
  \/ InstallItem
  \/ InstallFinish

SpecCancel == InitRoundTrip /\ [][NextCancel]_vars

(***************************************************************************)
(* List and Print calls on a disk and a unit table that do not change      *)
(***************************************************************************)
NextList ==
  \/ QuadletList
  \/ QuadletPrint

SpecList == Init /\ [][NextList]_vars

(***************************************************************************)
(* The install and rm commands: what each does with the values the engine  *)
(* call returned.  inspected tells whether the command read the report,    *)
(* printed and logged are the lines it wrote, err is what it returns.      *)
(***************************************************************************)
Uninspected(err) == [inspected |-> FALSE, printed |-> {}, logged |-> {}, err |-> err]

install ==
  IF ret.err # "" THEN Uninspected(ret.err)
  ELSE [inspected |-> TRUE,
        printed |-> {loc.installed.m[k] : k \in Keys(loc.installed)},
        logged |-> Keys(loc.instErrors),
        err |-> IF Keys(loc.instErrors) # {}
                  THEN "errors occurred installing some Quadlets" ELSE ""]

rm ==
  IF ret.report
    THEN [inspected |-> TRUE,
          printed |-> Range(loc.removed),
          logged |-> Keys(loc.rmErrors),
          err |-> IF ret.err = "" /\ Keys(loc.rmErrors) # {}
                    THEN "some quadlets could not be removed" ELSE ret.err]
    ELSE Uninspected(ret.err)

(***************************************************************************)
(* Properties                                                              *)
(***************************************************************************)
RemoveEnded == op.kind = "remove" /\ pc \in {"done", "panicked"}
RemoveReturned == op.kind = "remove" /\ pc = "done" /\ ret.report
InstallEnded == op.kind = "install" /\ pc \in {"done", "panicked"}
InstallReturned == op.kind = "install" /\ pc = "done" /\ ret.report

\* the services the status snapshot of the call reported loaded and active
ActiveInSnapshot ==
  {loc.snapshot[i].Name :
     i \in {j \in 1..Len(loc.snapshot) :
              /\ loc.snapshot[j].LoadState = "loaded"
              /\ loc.snapshot[j].ActiveState = "active"}}

\* the resolved quadlet files whose derived service the snapshot reported running
RunningPaths == {p \in DOMAIN loc.derived : loc.derived[p] \in ActiveInSnapshot}

DeletedPaths == {events[i].x : i \in {j \in 1..Len(events) : events[j].e = "delete"}}
StopsRequested == {events[i].x : i \in {j \in 1..Len(events) : events[j].e = "stop"}}
StopConfirmedBefore(svc, i) ==
  \E j \in 1..(i - 1) : events[j] \in {Event("stop done", svc), Event("stop skipped", svc)}
StopConfirmed(svc) == StopConfirmedBefore(svc, Len(events) + 1)
StopFailed(svc) ==
  \E j \in 1..Len(events) :
    events[j] \in {Event("stopfailed", svc), Event("stop failed", svc),
                   Event("stop timeout", svc)}

\* C1, first half: no file of a service the snapshot reported running is
\* deleted before a stop of that service was confirmed in this call
C1_DeletionAfterStop ==
  op.kind = "remove" =>
    \A i \in 1..Len(events) :
      (events[i].e = "delete" /\ events[i].x \in RunningPaths)
        => StopConfirmedBefore(loc.derived[events[i].x], i)

\* C1, second half: a stop that fails or ends with another result is in
\* errors under the quadlet's name and the file is left on disk
C1_FailedStopRecorded ==
  RemoveEnded =>
    \A p \in RunningPaths :
      StopFailed(loc.derived[p]) =>
        (Base(p) \in Keys(loc.rmErrors) /\ p \notin DeletedPaths)

\* C1: across any Remove call, the file of a quadlet whose service the
\* status snapshot reported loaded and active is deleted only after a stop of
\* that service ended "done" or "skipped" in this call, and any other stop
\* outcome or a failing stop request is recorded in errors for that quadlet,
\* whose file stays on disk
C1_Claim == C1_DeletionAfterStop /\ C1_FailedStopRecorded

\* C2: Remove with force=false on a quadlet whose service the snapshot
\* reported loaded and active ends with the name in errors and not in
\* removed, no stop request for the service, and the file not deleted
C2_Claim ==
  (RemoveEnded /\ ~op.force) =>
    \A p \in RunningPaths :
      /\ Base(p) \in Keys(loc.rmErrors)
      /\ Base(p) \notin Range(loc.removed)
      /\ loc.derived[p] \notin StopsRequested
      /\ p \notin DeletedPaths

\* os.Remove of the path failed in this call for a reason of the file system
DeleteFailed(p) == \E i \in 1..Len(events) : events[i] = Event("delete failed", p)

\* C3: Remove with force=true on a quadlet whose service the snapshot
\* reported loaded and active, once the stop has ended "done" or "skipped":
\* the file is deleted, and only after that completion; the name is in
\* removed and not in errors; a List run afterwards has no entry of that name
C3_Claim ==
  (RemoveEnded /\ op.force) =>
    \A p \in RunningPaths :
      (StopConfirmed(loc.derived[p]) /\ ~DeleteFailed(p)) =>
        /\ ~Exists(p)
        /\ \A i \in 1..Len(events) :
             events[i] = Event("delete", p) => StopConfirmedBefore(loc.derived[p], i)
        /\ Base(p) \in Range(loc.removed)
        /\ Base(p) \notin Keys(loc.rmErrors)
        /\ (read.kind = "list" /\ read.err = "") =>
             \A k \in 1..Len(read.entries) : read.entries[k].Name # Base(p)

\* Install has ended after it reached the loop over the source references
\* (an error before the loop returns no report and has handled no reference)
InstallProcessed == InstallEnded /\ (loc.looped \/ ret.report)

\* C4: whenever Install has processed its batch it returns a report, and
\* every input reference is a key of installed or a key of errors in it
C4_Claim ==
  InstallProcessed =>
    /\ ret.report
    /\ \A i \in 1..Len(op.args) :
         op.args[i] \in Keys(loc.installed) \cup Keys(loc.instErrors)

\* C5, the key sets alone: no key of installed is a key of errors
C5_NoKeyInBoth == Keys(loc.installed) \cap Keys(loc.instErrors) = {}

\* C5: for every sequence of input references, one of them named twice
\* included, the call yields a report in which no reference is a key of both
\* installed and errors
C5_Claim == InstallProcessed => (ret.report /\ C5_NoKeyInBoth)

\* C6: a failure of one reference (fetch, extension, existing destination,
\* copy) leaves no later reference of the batch unprocessed
C6_Claim ==
  (InstallEnded /\ loc.looped /\ loc.lastErr # "") => (loc.todo = <<>> /\ loc.layers = <<>>)

\* the destination path of the item the next round of the loop installs
\* ("" for an artifact reference, whose layers come in later rounds)
NextDestination ==
  IF loc.layers # <<>> THEN Join(loc.installDir, Head(loc.layers).filename)
  ELSE IF loc.todo = <<>> \/ IsOciRef(Head(loc.todo)) THEN ""
  ELSE IF IsUrlRef(Head(loc.todo))
    THEN Join(loc.installDir, TmpName(Cardinality(loc.deferred) + 1))
  ELSE Join(loc.installDir, Base(Head(loc.todo)))

\* the source reference that item belongs to
NextReference == IF loc.layers # <<>> THEN loc.ref ELSE Head(loc.todo)

\* C7: a round of the loop that finds the destination path of its reference
\* on disk records the reference in errors and leaves every file as it was
C7_Claim ==
  [][(pc = "inst_loop" /\ loc' # loc /\ Exists(NextDestination))
       => (NextReference \in Keys(loc'.instErrors) /\ fs' = fs)]_vars

\* C7, the frame alone: such a round changes no file
C7_NoOverwrite ==
  [][(pc = "inst_loop" /\ loc' # loc /\ Exists(NextDestination)) => fs' = fs]_vars

\* C8, the allow-list alone: Install writes no file, List returns no entry
\* and Remove deletes no file whose extension is not a quadlet extension
C8_AllowList ==
  /\ \A i \in 1..Len(events) :
       events[i].e \in {"write", "delete"} => IsExtSupported(events[i].x)
  /\ read.kind = "list" =>
       \A k \in 1..Len(read.entries) :
         read.entries[k].Path # "" => IsExtSupported(read.entries[k].Path)

\* C8: the allow-list is enforced by Install, List and Remove alike, and a
\* reference Install refuses for its extension is in errors
C8_Claim ==
  /\ C8_AllowList
  /\ InstallProcessed =>
       \A i \in 1..Len(op.args) :
         (op.args[i] \in LocalRefs /\ SourceContent(op.args[i]) # ""
            /\ ~IsExtSupported(op.args[i]))
           => op.args[i] \in Keys(loc.instErrors)

\* C9: after a Remove with all=true that returned a report, every quadlet
\* file still found by enumeration belongs to a running service
C9_Claim ==
  (RemoveReturned /\ op.all /\ envSteps = 0) =>
    \A i \in 1..Len(getAllQuadletPaths) :
      LET serviceName == getQuadletServiceName(getAllQuadletPaths[i]) IN
        serviceName # "" => units[serviceName].ActiveState = "active"

\* C10, the outcome of the names that resolved to no file
C10_MissingOutcome ==
  \A name \in loc.missing :
    IF op.ignore \/ op.all
      THEN name \in Range(loc.removed) /\ name \notin Keys(loc.rmErrors)
      ELSE name \in Keys(loc.rmErrors) /\ name \notin Range(loc.removed)

\* C10: a requested name that resolves to no file is in removed and not in
\* errors under ignore or all, in errors and not in removed otherwise, and
\* the names after it are still processed
C10_Claim == (RemoveEnded /\ loc.looped) => (C10_MissingOutcome /\ loc.todo = <<>>)

\* the names a Remove call works on: the requested names, or under all the
\* enumerated paths that replace them
ProcessedNames == Range(loc.quadlets)

\* C11 as stated: whenever Remove returns a report every requested name is
\* in removed or in errors, whatever the options
C11_Original ==
  RemoveReturned =>
    \A i \in 1..Len(op.args) :
      op.args[i] \in Range(loc.removed) \cup Keys(loc.rmErrors)

\* C11: whenever Remove returns a report, every name the call worked on (the
\* requested names, or under all the enumerated paths substituted for them)
\* is in removed or in errors
C11_Claim ==
  RemoveReturned =>
    \A name \in ProcessedNames : name \in Range(loc.removed) \cup Keys(loc.rmErrors)

\* a Remove call without all returned a report for a name that was on disk
C11_Witness ==
  /\ RemoveReturned /\ ~op.all /\ Len(op.args) > 0
  /\ \E i \in 1..Len(events) : events[i].e = "delete"
  /\ op.args[1] \in Range(loc.removed)

\* the field of an entry a filter name looks at
FilterField(q, fname) ==
  IF fname = "name" THEN q.Name ELSE IF fname = "status" THEN q.Status ELSE ""

\* the entry matches, for every filter name, one of the values of that name
SatisfiesAll(filters, q) ==
  \A fname \in FilterNames(filters) : FilterField(q, fname) \in FilterValues(filters, fname)

\* the List call got its connection, well-formed filters and its answer
ListAnswered ==
  /\ read.kind = "list"
  /\ read.err \notin {"connecting to systemd dbus", "invalid filter",
                      "querying systemd for unit status"}

\* C12: List returns exactly the entries that match, for every filter name
\* supplied, one of the values of that name; with no filter, every entry
C12_Claim ==
  ListAnswered =>
    /\ read.err = ""
    /\ read.entries = SelectSeq(ListReportsFrom(<<>>, read.statuses),
                               LAMBDA q : SatisfiesAll(read.filters, q))

\* C12 for the name filter alone, the one filter generateQuadletFilter knows
C12_NameFilter ==
  (ListAnswered /\ FilterNames(read.filters) \subseteq {"name"}) =>
    \A k \in 1..Len(read.entries) : SatisfiesAll(read.filters, read.entries[k])

\* the status the claim gives the entry of a derived service: from the answer
\* of the service manager for that service, "Not loaded" when there is none
ExpectedStatus(serviceName, statuses) ==
  IF \E i \in 1..Len(statuses) :
       statuses[i].Name = serviceName /\ statuses[i].LoadState = "loaded"
    THEN LET i == CHOOSE j \in 1..Len(statuses) : statuses[j].Name = serviceName
         IN statuses[i].ActiveState \o "/" \o statuses[i].SubState
    ELSE "Not loaded"

\* C13: the entry of a quadlet file whose service name was derived has status
\* "Not loaded" when the answer for that service has a LoadState other than
\* "loaded" or the answer has no status for it, else "<ActiveState>/<SubState>"
C13_Claim ==
  (read.kind = "list" /\ read.err = "") =>
    \A k \in 1..Len(read.entries) :
      (read.entries[k].Path # "" /\ getQuadletServiceName(read.entries[k].Path) # "")
        => read.entries[k].Status =
             ExpectedStatus(getQuadletServiceName(read.entries[k].Path), read.statuses)

\* a List call returned a running service, one not loaded, and an entry left
\* without an answer
C13_Witness ==
  /\ read.kind = "list" /\ read.err = ""
  /\ \E k \in 1..Len(read.entries) : read.entries[k].Status = "active/running"
  /\ \E k \in 1..Len(read.entries) :
       /\ read.entries[k].Path # ""
       /\ read.entries[k].Status = "Not loaded"
       /\ \A i \in 1..Len(read.statuses) :
            read.statuses[i].Name # getQuadletServiceName(read.entries[k].Path)

\* C14: List without filters returns one entry per enumerated quadlet file,
\* with the name and the path of that file, and no entry of no file; two
\* files of one name or of one derived service have an entry each (stated
\* for the calls in which the service manager answered every name asked)
C14_Claim ==
  (read.kind = "list" /\ read.err = "" /\ read.filters = <<>>
     /\ Len(read.statuses) = Len(ListNames)) =>
    /\ \A i \in 1..Len(getAllQuadletPaths) :
         Cardinality({k \in 1..Len(read.entries) :
                        /\ read.entries[k].Path = getAllQuadletPaths[i]
                        /\ read.entries[k].Name = Base(getAllQuadletPaths[i])}) = 1
    /\ \A k \in 1..Len(read.entries) : read.entries[k].Path \in Range(getAllQuadletPaths)

\* C14 when no two files on disk derive the same service name
C14_DistinctServices ==
  (\A i, j \in 1..Len(getAllQuadletPaths) :
     (i # j /\ getQuadletServiceName(getAllQuadletPaths[i]) # "")
       => getQuadletServiceName(getAllQuadletPaths[i])
            # getQuadletServiceName(getAllQuadletPaths[j]))
    => C14_Claim

\* the enumerated quadlet files whose service name cannot be derived
UnparsedPaths ==
  {p \in Range(getAllQuadletPaths) : getQuadletServiceName(p) = ""}

\* C15: in List a quadlet file whose parsing or name derivation fails has an
\* entry with its name, its path and the error text as status, and the
\* status query asks for no service name on its behalf
C15_Claim ==
  (read.kind = "list" /\ read.err = "") =>
    /\ \A p \in UnparsedPaths :
         \E k \in 1..Len(read.entries) :
           read.entries[k] = [Name |-> Base(p), Path |-> p,
                              Status |-> "parsing Quadlet file " \o p]
    /\ Len(ListNames) = Len(getAllQuadletPaths) - Cardinality(UnparsedPaths)
    /\ \A i \in 1..Len(read.statuses) :
         \E p \in Range(getAllQuadletPaths) \ UnparsedPaths :
           read.statuses[i].Name = getQuadletServiceName(p)

\* a List call answered for a disk with a file that does not parse and one that does
C15_Witness ==
  /\ read.kind = "list" /\ read.err = ""
  /\ UnparsedPaths # {}
  /\ read.statuses # <<>>

\* local source files that exist, carry a quadlet extension and parse
ValidLocalRefs ==
  {ref \in LocalRefs : /\ SourceContent(ref) # ""
                       /\ IsExtSupported(ref)
                       /\ UnitServiceName(SourceContent(ref)) # ""}

\* the service a source file derives
ServiceOf(ref) == UnitServiceName(SourceContent(ref)) \o ".service"

\* a Remove with default options of the one valid local file the Install
\* before it was given, whose name no search directory held, has ended; the
\* install directory took the copy
RoundTripEnded ==
  /\ RemoveEnded
  /\ ~op.force /\ ~op.all /\ ~op.ignore
  /\ op.prev.kind = "install"
  /\ Len(op.prev.args) = 1
  /\ op.prev.args[1] \in ValidLocalRefs
  /\ Base(op.prev.args[1]) \notin op.prev.existing
  /\ op.prev.looped /\ op.prev.lastErr = ""
  /\ op.args = <<Base(op.prev.args[1])>>

\* the Remove got its connection and its answers, and os.Remove did not fail
RemoveUndisturbed ==
  /\ ret.err \notin {"connecting to systemd dbus", "querying systemd for unit status"}
  /\ \A i \in 1..Len(events) : events[i].e # "delete failed"

\* C16: Install of a valid local file whose name is new returns it as
\* installed, a List then has an entry of that name with status "Not loaded"
\* (the service never loaded), and a Remove of the name with default options,
\* the service not running, returns removed = [name], no error for it, and
\* leaves no file of that name
C16_Claim ==
  RoundTripEnded =>
    LET ref == op.prev.args[1]
        name == Base(ref)
    IN /\ op.prev.report
       /\ ref \in op.prev.installed
       /\ (op.prev.listed /\ units[ServiceOf(ref)].LoadState # "loaded") =>
            \E k \in 1..Len(op.prev.entries) :
              /\ op.prev.entries[k].Name = name
              /\ op.prev.entries[k].Status = "Not loaded"
       /\ (RemoveUndisturbed /\ units[ServiceOf(ref)].ActiveState # "active") =>
            /\ ret.report
            /\ loc.removed = <<name>>
            /\ name \notin Keys(loc.rmErrors)
            /\ name \notin ExistingNames

ConnectError == "connecting to systemd dbus"

\* C17: a call of Install, Remove or List that fails to connect to the
\* service manager returns the error and no report or entry, and changes no
\* file, no directory and no unit, and sends no stop and no reload request
C17_Claim ==
  [][((calls' # calls /\ ret'.err = ConnectError)
        \/ (read' # read /\ read'.kind = "list" /\ read'.err = ConnectError))
       => /\ fs' = fs /\ dirState' = dirState /\ tmpFiles' = tmpFiles
          /\ units' = units /\ stopJob' = stopJob
          /\ calls' # calls => (~ret'.report /\ pc' = "done" /\ events' = <<>>)
          /\ read' # read => (read'.entries = <<>> /\ read'.queries = 0)]_vars

\* an Install, a Remove and a List have each failed to connect
C17_InstallWitness == op.kind = "install" /\ pc = "done" /\ ret.err = ConnectError
C17_RemoveWitness == op.kind = "remove" /\ pc = "done" /\ ret.err = ConnectError
C17_Witness ==
  /\ C17_InstallWitness \/ C17_RemoveWitness
  /\ read.kind = "list" /\ read.err = ConnectError

WrittenPaths == {events[i].x : i \in {j \in 1..Len(events) : events[j].e = "write"}}
StoppedServices == {events[i].x : i \in {j \in 1..Len(events) : events[j].e = "stop done"}}
ValidationFailed == Event("validate", "failed") \in Range(events)
ReloadFailed == Event("reload", "failed") \in Range(events)

\* C18, Install: after a failed validation pass or a failed reload the call
\* returns an error and the report, the report names every file written, and
\* every file written is on disk
C18_Install ==
  (InstallEnded /\ (ValidationFailed \/ ReloadFailed)) =>
    /\ pc = "done" /\ ret.report /\ ret.err # ""
    /\ \A p \in WrittenPaths :
         /\ Exists(p)
         /\ \E k \in Keys(loc.installed) : loc.installed.m[k] = p

\* C18, Remove: after a failed reload the call returns the reload error and
\* the report, the report names every file deleted, every file deleted is
\* gone and every service stopped is inactive
C18_Remove ==
  (RemoveEnded /\ ReloadFailed) =>
    /\ pc = "done" /\ ret.report /\ ret.err = "reloading systemd"
    /\ \A p \in DeletedPaths : ~Exists(p) /\ Base(p) \in Range(loc.removed)
    /\ \A svc \in StoppedServices : units[svc] = Inactive

\* C18: when the validation pass or the reload fails in Install, or the
\* reload fails in Remove, the call returns a non-nil error together with the
\* report, and every file installed or deleted and every service stopped
\* during the call stays so
C18_Claim == C18_Install /\ C18_Remove

\* a Remove that stopped a service and deleted its file ends with a failed reload
C18_Witness ==
  /\ RemoveEnded /\ ReloadFailed
  /\ StoppedServices # {} /\ DeletedPaths # {}

\* an Install ends after a failed validation pass, and one after a failed reload
C18_ValidationWitness == InstallEnded /\ ValidationFailed /\ ~ReloadFailed
C18_ReloadWitness == InstallEnded /\ ReloadFailed

\* C19, install: whenever the engine returned a report, the install command
\* has read it, printed every installed path and logged every per-item
\* error, and returns the engine's error when there is one
C19_Install ==
  (op.kind = "install" /\ pc = "done" /\ ret.report) =>
    /\ install.inspected
    /\ {loc.installed.m[k] : k \in Keys(loc.installed)} \subseteq install.printed
    /\ Keys(loc.instErrors) \subseteq install.logged
    /\ ret.err # "" => install.err = ret.err

\* C19, rm: whenever the engine returned a report, the rm command has read
\* it, printed every removed name and logged every per-item error, and
\* returns the engine's error when there is one
C19_Rm ==
  (op.kind = "remove" /\ pc = "done" /\ ret.report) =>
    /\ rm.inspected
    /\ Range(loc.removed) \subseteq rm.printed
    /\ Keys(loc.rmErrors) \subseteq rm.logged
    /\ ret.err # "" => rm.err = ret.err

\* C19: the install and rm commands inspect the report whenever the engine
\* returns one, also when it comes with a non-nil error: every installed
\* path or removed name is printed and every per-item error is reported
\* before the command returns the error
C19_Claim == C19_Install /\ C19_Rm

\* the rm command printed a removed name of a report that came with an error
C19_RmWitness ==
  /\ op.kind = "remove" /\ pc = "done" /\ ret.report /\ ret.err # ""
  /\ rm.printed # {}

\* C20: when Install has ended, on whichever path, no temporary download
\* file this call created is left
C20_Claim == InstallEnded => \A tmpFile \in loc.deferred : tmpFile \notin tmpFiles

\* an Install that created a temporary download file has ended
C20_Witness == InstallEnded /\ loc.deferred # {}

\* the file name a URL reference ends with
UrlFileName(ref) == IF ref = "https://example.com/b.container" THEN "b.container" ELSE ""

\* the round of the loop under way handles a URL reference, and after it the
\* download and the copy into the temporary file have succeeded and the
\* write into the install directory has not failed
UrlRoundDownloaded ==
  /\ pc = "inst_loop" /\ loc' # loc
  /\ loc.layers = <<>> /\ loc.todo # <<>> /\ IsUrlRef(Head(loc.todo))
  /\ loc'.lastErr \notin {"no temporary file", "no download", "no copy", "writing Quadlet"}

\* C21: a round of Install's loop on a URL that names a file with a supported
\* quadlet extension, whose download succeeds while the install directory has
\* no file of that name, records the URL in installed and leaves the quadlet
\* file in the install directory
C21_Claim ==
  [][(/\ UrlRoundDownloaded
      /\ IsExtSupported(UrlFileName(Head(loc.todo)))
      /\ ~Exists(Join(loc.installDir, UrlFileName(Head(loc.todo)))))
       => /\ Head(loc.todo) \in Keys(loc'.installed)
          /\ fs'[Join(loc.installDir, UrlFileName(Head(loc.todo)))] # NoFile]_vars

\* C21, the cause: such a round always ends with the extension error, because
\* the destination is named after the temporary file
C21_AlwaysRefused ==
  [][UrlRoundDownloaded
       => (loc'.lastErr = "is not a supported Quadlet file type" /\ fs' = fs)]_vars

\* the reload requests the call in progress has sent
ReloadRequests == {i \in 1..Len(events) : events[i].e = "reload"}

\* C22: a Remove call whose ReloadSystemd option is false sends no reload
\* request to the service manager
C22_Claim == (op.kind = "remove" /\ ~op.reload) => ReloadRequests = {}

\* the positions, in precedence order, of the rootless search directories
\* under the admin root that exist, are directories and are writable
WritableAdminDirs ==
  {i \in 1..Len(GetUnitDirs(TRUE)) :
     HasAdminPrefix(GetUnitDirs(TRUE)[i]) /\ dirState[GetUnitDirs(TRUE)[i]] = "dir"}

\* C23: an Install of a rootless user that got as far as choosing its target,
\* with at least one writable directory under the admin root, installs into
\* the first of them in precedence order
C23_Claim ==
  (op.kind = "install" /\ rootless /\ loc.installDir # "" /\ WritableAdminDirs # {})
    => \E i \in WritableAdminDirs :
         /\ loc.installDir = GetUnitDirs(TRUE)[i]
         /\ \A j \in WritableAdminDirs : i <= j

\* C23, what the loop does: the target is the last such directory
C23_LastWins ==
  (op.kind = "install" /\ rootless /\ loc.installDir # "" /\ WritableAdminDirs # {})
    => \E i \in WritableAdminDirs :
         /\ loc.installDir = GetUnitDirs(TRUE)[i]
         /\ \A j \in WritableAdminDirs : j <= i

NoTargetsError == "must provide at least 1 quadlet to remove"

\* C24, the empty request: a Remove call starting with no name and all=false
\* ends at once with that error and no report, whether or not the service
\* manager can be reached, and changes no file, directory or unit and asks
\* nothing of the service manager
C24_EmptyRequest ==
  [][(calls' # calls /\ op'.kind = "remove" /\ Len(op'.args) = 0 /\ ~op'.all)
       => /\ pc' = "done" /\ ~ret'.report /\ ret'.err = NoTargetsError
          /\ events' = <<>>
          /\ fs' = fs /\ dirState' = dirState /\ tmpFiles' = tmpFiles
          /\ units' = units /\ stopJob' = stopJob]_vars

\* C24, all=true: the call never fails with that error, also with no name
\* given and no quadlet on disk
C24_AllNeverEmpty ==
  [][(calls' # calls /\ op'.kind = "remove" /\ op'.all) => ret'.err # NoTargetsError]_vars

C24_AllWitness ==
  /\ RemoveReturned /\ op.all /\ Len(op.args) = 0
  /\ getAllQuadletPaths = <<>> /\ loc.quadlets = <<>> /\ ret.err = ""

\* the services the status snapshot of the call reported loaded
LoadedInSnapshot ==
  {loc.snapshot[i].Name : i \in {j \in 1..Len(loc.snapshot) :
                                   loc.snapshot[j].LoadState = "loaded"}}

\* C25, at any time of a Remove call: at most one reload request has been
\* sent, and nothing is stopped or deleted after it
C25_ReloadLast ==
  op.kind = "remove" =>
    /\ Cardinality(ReloadRequests) <= 1
    /\ \A i \in ReloadRequests : i = Len(events)

C25_NoReloadWitness ==
  RemoveReturned /\ LoadedInSnapshot = {} /\ DeletedPaths # {} /\ ReloadRequests = {}

\* the runs of the validation pass in the call in progress
ValidationRuns == {i \in 1..Len(events) : events[i].e = "validate"}

\* C26, the order and the number at any time of an Install call: at most one
\* validation pass, after which no reference is fetched and no file written;
\* at most one reload request, after the validation pass, and none when
\* ReloadSystemd is not set
C26_Order ==
  op.kind = "install" =>
    /\ Cardinality(ValidationRuns) <= 1
    /\ \A i \in ValidationRuns, j \in 1..Len(events) :
         events[j].e \in {"fetch", "fetch failed", "write"} => j < i
    /\ Cardinality(ReloadRequests) <= (IF op.reload THEN 1 ELSE 0)
    /\ \A j \in ReloadRequests : \E i \in ValidationRuns : i < j

\* C26: an Install call that processed its references has run the validation
\* pass exactly once, after the last of them, and has requested a reload
\* exactly once and after that pass if ReloadSystemd is set, validation
\* failed or not, and never if it is not set; a failed reload is the error
\* the call returns
C26_Claim ==
  /\ C26_Order
  /\ InstallProcessed =>
       /\ Cardinality(ValidationRuns) = 1
       /\ Cardinality(ReloadRequests) = (IF op.reload THEN 1 ELSE 0)
       /\ ReloadFailed => (ret.report /\ ret.err = "reloading systemd")

\* C26 for the calls that reach the end of the loop
C26_AfterLoop ==
  /\ C26_Order
  /\ (InstallEnded /\ ret.report) =>
       /\ Cardinality(ValidationRuns) = 1
       /\ Cardinality(ReloadRequests) = (IF op.reload THEN 1 ELSE 0)
       /\ ReloadFailed => ret.err = "reloading systemd"

\* the service names the enumerated quadlet files derive
DerivedServices ==
  {getQuadletServiceName(p) : p \in Range(getAllQuadletPaths)} \ {""}

\* the status queries the Remove call in progress has sent
StatusQueries == {i \in 1..Len(events) : events[i].e = "query"}

\* C27, List: a List call that connected and accepted its filters has sent
\* exactly one status query, for every service name derived, and any other
\* List call none
C27_List ==
  read.kind = "list" =>
    IF read.err \in {"", "querying systemd for unit status"}
      THEN read.queries = 1 /\ Range(read.asked) = DerivedServices
      ELSE read.queries = 0

\* C27, Remove: a Remove call sends at most one status query, for every
\* service name derived from the resolved files, and none when no name was
\* derived; a call that went past the query with a name derived has sent one
C27_Remove ==
  op.kind = "remove" =>
    /\ Cardinality(StatusQueries) <= 1
    /\ StatusQueries # {} =>
         /\ loc.allServiceNames # <<>>
         /\ \A p \in DOMAIN loc.derived : loc.derived[p] \in Range(loc.allServiceNames)
    /\ (pc \in {"rm_status", "rm_wait", "rm_delete", "rm_reload"} \/ RemoveReturned) =>
         Cardinality(StatusQueries) = (IF loc.allServiceNames = <<>> THEN 0 ELSE 1)

\* C27: service status is obtained by one batch query per call: List sends
\* exactly one status query covering every derived service name, Remove at
\* most one covering every derived service name and none when none was derived
C27_Claim == C27_List /\ C27_Remove

\* a Remove call that derived two service names has sent its one query, and
\* the List call after it has sent its one query
C27_Witness ==
  /\ RemoveReturned /\ Len(loc.allServiceNames) = 2 /\ StatusQueries # {}
  /\ read.kind = "list" /\ read.queries = 1

\* a List call has asked for two service names in its one query
C27_ListWitness == read.kind = "list" /\ read.queries = 1 /\ Len(read.asked) = 2

\* a Remove call that derived no service name has returned without a query
C27_NoQueryWitness ==
  RemoveReturned /\ Len(op.args) > 0 /\ loc.allServiceNames = <<>> /\ StatusQueries = {}

\* the stop requests of the call in progress, and the completion signals
StopRequests == {i \in 1..Len(events) : events[i].e = "stop"}
StopSignals ==
  {i \in 1..Len(events) :
     events[i].e \in {"stop done", "stop skipped", "stop failed", "stop timeout"}}

\* C28: in a Remove call every stop request but the last has its completion
\* signal before the next stop request, so that at most one stop request is
\* outstanding, and while one is outstanding the call does nothing but wait
C28_Claim ==
  op.kind = "remove" =>
    /\ \A i, j \in StopRequests :
         i < j => \E k \in StopSignals : i < k /\ k < j /\ events[k].x = events[i].x
    /\ Cardinality(StopRequests) - Cardinality(StopSignals) \in {0, 1}
    /\ Cardinality(StopRequests) > Cardinality(StopSignals)
         => (pc = "rm_wait" /\ events[Len(events)] = Event("stop", stopJob))
    /\ StopRequests # {} => op.force

\* a Remove call with force has stopped two services, one after the other
C28_Witness ==
  /\ RemoveEnded /\ op.force
  /\ Cardinality(StopRequests) = 2 /\ Cardinality(StopSignals) = 2

\* the resolved quadlet files of the Remove call whose service name could
\* not be derived
UnderivedPaths == Range(loc.allQuadletPaths) \ DOMAIN loc.derived

\* C29, the file: Remove deletes no resolved file whose name derivation failed
C29_FileKept == op.kind = "remove" => UnderivedPaths \cap DeletedPaths = {}

\* C29: when a Remove call has ended, a resolved quadlet whose service-name
\* derivation failed is in errors under its name, is not in removed, and its
\* file has not been deleted
C29_Claim ==
  (RemoveEnded /\ loc.looped) =>
    \A p \in UnderivedPaths :
      /\ Base(p) \in Keys(loc.rmErrors)
      /\ Base(p) \notin Range(loc.removed)
      /\ p \notin DeletedPaths

\* the resolved files os.Remove found missing in this call
GonePaths == {events[i].x : i \in {j \in 1..Len(events) : events[j].e = "already gone"}}
FailedDeletions ==
  {events[i].x : i \in {j \in 1..Len(events) : events[j].e = "delete failed"}}

\* C30, the missing file: a quadlet whose file is gone when the delete is
\* attempted is in removed and not in errors
C30_Missing ==
  (RemoveEnded /\ loc.looped) =>
    \A p \in GonePaths :
      Base(p) \in Range(loc.removed) /\ Base(p) \notin Keys(loc.rmErrors)

\* C30, any other failure: the quadlet is in errors and not in removed, and
\* the call goes on to the end of the batch and returns its report
C30_OtherFailure ==
  (RemoveEnded /\ loc.looped) =>
    \A p \in FailedDeletions \ DeletedPaths :
      /\ Base(p) \in Keys(loc.rmErrors) /\ Base(p) \notin Range(loc.removed)
      /\ RemoveReturned /\ loc.toDelete = <<>>

\* C30: in Remove a resolved quadlet whose file is already missing when the
\* delete is attempted is reported in removed and not in errors; any other
\* delete failure is recorded in errors for that quadlet, which is not in
\* removed, and the remaining quadlets are still processed
C30_Claim == C30_Missing /\ C30_OtherFailure

\* a Remove call has found a resolved file gone at the delete and returned
C30_MissingWitness == RemoveReturned /\ GonePaths # {}

\* the step is the start of an Install call that got as far as looking at
\* its install path
InstallLooksAtDir == calls' # calls /\ op'.kind = "install" /\ loc'.installDir # ""

\* C31, a path that is no directory: the call ends at once with an error and
\* no report, whoever runs it, and creates nothing
C31_NotDirectory ==
  [][(InstallLooksAtDir /\ dirState[loc'.installDir] = "file")
       => (pc' = "done" /\ ~ret'.report /\ ret'.err # "" /\ dirState' = dirState)]_vars

\* C31, a path that does not exist: a rootless call creates it and goes on
\* (or fails to create it), a root call ends with an error and no report and
\* creates nothing
C31_Absent ==
  [][(InstallLooksAtDir /\ dirState[loc'.installDir] = "absent")
       => IF rootless
            THEN \/ /\ dirState'[loc'.installDir] = "dir"
                    /\ pc' = "inst_loop" \/ ret'.err = "artifact store"
                 \/ /\ ret'.err = "unable to create Quadlet install path"
                    /\ dirState' = dirState
            ELSE pc' = "done" /\ ~ret'.report /\ ret'.err # ""
                 /\ dirState' = dirState]_vars

\* C31, no file: an Install whose install path is no directory writes nothing
C31_NothingWritten ==
  [](op.kind = "install" /\ loc.installDir # "" /\ dirState[loc.installDir] = "file"
       => WrittenPaths = {})

\* C31: if the chosen install path exists but is not a directory, Install
\* fails with a call-level error and no report, for root and rootless alike,
\* and writes no quadlet file; if the path does not exist, a rootless call
\* creates it and proceeds, a root call fails without creating it
C31_Claim == C31_NotDirectory /\ C31_Absent /\ C31_NothingWritten

RemoveRunning == op.kind = "remove" /\ pc \notin {"idle", "done", "panicked"}

\* C32, termination: every Remove call under way ends
C32_Terminates == RemoveRunning ~> RemoveEnded

\* C32, the wait: a call waiting for a stop job leaves the wait by the
\* completion signal of that job and by nothing else
C32_NoTimeout ==
  [][(pc = "rm_wait" /\ pc' # "rm_wait")
       => (/\ Len(events') = Len(events) + 1
           /\ Len(events') \in StopSignals'
           /\ events'[Len(events')].x = stopJob)]_vars

CancelAt == {i \in 1..Len(events) : events[i].e = "cancel"}

\* what starts an item: a fetch, a copy into the install directory, a stop
\* request, a file deletion
StartsItem(e) == e \in {"fetch", "write", "stop", "delete"}

\* C33, the requests made with ctx: no stop request is accepted after the
\* cancellation
C33_NoStopAfterCancel ==
  \A i \in CancelAt, j \in 1..Len(events) : i < j => events[j].e # "stop"

\* C33, Install: no file is written after the cancellation
C33_NoWriteAfterCancel ==
  \A i \in CancelAt, j \in 1..Len(events) : i < j => events[j].e # "write"

\* C33, Remove: no file is deleted after the cancellation
C33_NoDeleteAfterCancel ==
  \A i \in CancelAt, j \in 1..Len(events) : i < j => events[j].e # "delete"

\* C33: once ctx is cancelled, Install and Remove start no further item: no
\* fetch or copy, no stop request and no file deletion comes after the
\* cancellation among the events of the call
C33_Claim ==
  \A i \in CancelAt, j \in 1..Len(events) : i < j => ~StartsItem(events[j].e)

\* the position of an event of a concurrent call in the common history
EventAt(e, p) == {i \in 1..Len(events) : events[i] = Event(e, p)}

\* both concurrent calls found the destination absent before either wrote it
BothPassedCheck ==
  \A p, q \in Installers :
    /\ EventAt("checked", p) # {} /\ EventAt("written", q) # {}
    /\ \A i \in EventAt("checked", p), j \in EventAt("written", q) : i < j

\* the call that wrote the destination last
LaterWriter ==
  CHOOSE p \in Installers :
    /\ EventAt("written", p) # {}
    /\ \A q \in Installers :
         \A i \in EventAt("written", p), j \in EventAt("written", q) : j <= i

\* C34: when two concurrent Install calls of the same destination name have
\* both passed the existence check before either wrote, both have written
\* the destination, both report their reference as installed and neither an
\* error, and the file has the content of the later writer
C34_Claim ==
  (BothPassedCheck /\ \A p \in Installers : installers[p].pc \in {"done", "panicked"})
    => \A p \in Installers :
         /\ installers[p].pc = "done"
         /\ installers[p].path \in Keys(installers[p].installed)
         /\ Keys(installers[p].instErrors) = {}
         /\ fs[installers[p].finalPath] = SourceContent(installers[LaterWriter].path)

\* C34, the disk alone: in that interleaving the file ends with the content
\* of the later writer
C34_LaterContent ==
  (BothPassedCheck /\ \A p \in Installers : installers[p].pc \in {"done", "panicked"})
    => \A p \in Installers :
         fs[installers[p].finalPath] = SourceContent(installers[LaterWriter].path)

\* two calls with different sources have both passed the check, both written
\* and both ended
C34_Race ==
  /\ BothPassedCheck
  /\ \A p \in Installers : installers[p].pc \in {"done", "panicked"}
  /\ installers["first"].path # installers["second"].path

(***************************************************************************)
(* C35: nothing is kept from one call to the next                          *)
(***************************************************************************)
\* a List, a Remove call and a List after it, while units are started and
\* stopped by hand and a file is taken away by another process
NextFresh ==
  \/ ListBefore
  \/ NextRemove
  \/ EnvSetUnit

SpecFresh == InitRoundTrip /\ [][NextFresh]_vars

\* the entries a List call computes when it has nothing but the search
\* directories and the unit table of the state it runs in
FreshReports(filters) ==
  LET asked == ListDerive(getAllQuadletPaths, <<>>, [s \in {} |-> ZeroEntry], <<>>)
      answer == [i \in 1..Len(asked.names) |->
                   [Name |-> asked.names[i], LoadState |-> units[asked.names[i]].LoadState,
                    ActiveState |-> units[asked.names[i]].ActiveState,
                    SubState |-> units[asked.names[i]].SubState]]
      reconciled == ListReconcile(answer, asked.reports, asked.partial)
  IN SelectSeq(ListLeftover(reconciled.reports, reconciled.partial),
               LAMBDA q : Include(filters, q))

\* a List call that was answered in full has just returned
ListReturns ==
  /\ read' # read
  /\ read'.kind = "list" /\ read'.err = ""
  /\ Len(read'.statuses) = Len(read'.asked)

\* C35, List: whatever ran before it, a List call returns the entries that
\* the files and the unit table of the state it runs in determine
C35_ListFresh == [][ListReturns => read'.entries = FreshReports(read'.filters)]_vars

\* C35, the external change: a List returns no entry for a file that is not
\* on disk when it runs, and its statuses are those of the unit table then
C35_ReflectsChange ==
  [][ListReturns =>
       /\ \A k \in 1..Len(read'.entries) :
            read'.entries[k].Path # "" => Exists(read'.entries[k].Path)
       /\ \A i \in 1..Len(read'.statuses) :
            /\ read'.statuses[i].LoadState = units[read'.statuses[i].Name].LoadState
            /\ read'.statuses[i].ActiveState = units[read'.statuses[i].Name].ActiveState]_vars

\* C35, Remove: the files a Remove call resolves its names to are those the
\* names resolve to on the disk of the state the call runs in
C35_RemoveFresh ==
  [][(pc = "rm_resolve" /\ pc' = "rm_query" /\ ~op.all) =>
       Range(loc'.allQuadletPaths) =
         {getQuadletByName(n).path :
            n \in {m \in Range(op.args) : getQuadletByName(m).err = ""}}]_vars

RootlessTargetChosen == op.kind = "install" /\ rootless /\ loc.installDir # ""

\* C36: in restricted mode a directory under the admin root is the install
\* target only if it exists, is a directory and is writable
C36_Claim ==
  (RootlessTargetChosen /\ HasAdminPrefix(loc.installDir))
    => dirState[loc.installDir] = "dir"

\* C36, the part that holds: a directory under the admin root that does not
\* exist, or is no directory, is never the target
C36_ExistsAndIsDir ==
  (RootlessTargetChosen /\ HasAdminPrefix(loc.installDir))
    => dirState[loc.installDir] \in {"dir", "rodir"}

\* C36, where a writable one is found: the target is writable
C36_WritableWhenFound ==
  (RootlessTargetChosen /\ HasAdminPrefix(loc.installDir) /\ WritableAdminDirs # {})
    => dirState[loc.installDir] = "dir"

(***************************************************************************)
(* C37: List and Print are read-only                                       *)
(***************************************************************************)
\* the step is a List or a Print call that has returned
ReadCall == read' # read /\ read'.kind \in {"list", "print"}

\* C37: a List or a Print call, whatever its filters or its name and however
\* it ends, creates, changes and deletes no file and sends the service
\* manager no stop and no reload request: the disk and the unit table are
\* after the call what they were before it
C37_Claim ==
  [][ReadCall =>
       /\ fs' = fs /\ dirState' = dirState /\ tmpFiles' = tmpFiles
       /\ units' = units /\ stopJob' = stopJob
       /\ events' = events]_vars

\* a Print call has returned the contents of a file, and the file is on disk
\* with these contents
C37_Witness ==
  /\ read.kind = "print" /\ read.err = "" /\ read.contents # ""
  /\ getQuadletByName(read.name).err = ""
  /\ fs[getQuadletByName(read.name).path] = read.contents
  /\ events = <<>> /\ stopJob = ""

(***************************************************************************)
(* C38: name resolution in Remove and Print                                *)
(***************************************************************************)
\* a Print before the first call
PrintBefore == pc = "idle" /\ QuadletPrint

\* a Print after a call: one for each call
PrintAfter == pc = "done" /\ read.kind = "none" /\ QuadletPrint

\* a Remove call while another process takes a file away, and Print calls
\* before and after it
NextResolve ==
  \/ PrintBefore
  \/ NextRemoveCall
  \/ EnvRemoveFile
  \/ PrintAfter

SpecResolve == Init /\ [][NextResolve]_vars

\* the positions, in precedence order, of the search directories that hold a
\* file of the name
Holders(name) ==
  {i \in 1..Len(GetUnitDirs(rootless)) : Exists(Join(GetUnitDirs(rootless)[i], name))}

\* the file of the name in the first search directory that holds one
FirstHolder(name) ==
  Join(GetUnitDirs(rootless)[CHOOSE i \in Holders(name) : \A j \in Holders(name) : i <= j],
       name)

\* a search directory before the first holder of the name is a regular file,
\* so that the os.Stat of the name under it fails with ENOTDIR
BlockedBefore(name) ==
  \E i \in Holders(name) : \E j \in 1..(i - 1) :
    dirState[GetUnitDirs(rootless)[j]] = "file"

\* a Remove call of one name, without all
RemoveOfOne == op.kind = "remove" /\ ~op.all /\ Len(op.args) = 1

\* the step is the name resolution of a Remove call of one name
ResolvesOne == pc = "rm_resolve" /\ pc' # "rm_resolve" /\ RemoveOfOne

\* the step is a Print call that has returned
PrintReturns == read' # read /\ read'.kind = "print"

\* the step resolves a supported name that some search directory holds, in
\* a Remove of one name or in a Print
RemoveFinds == ResolvesOne /\ IsExtSupported(op.args[1]) /\ Holders(op.args[1]) # {}
PrintFinds == PrintReturns /\ IsExtSupported(read'.name) /\ Holders(read'.name) # {}

\* C38 as stated, first part: the name resolves to the file in the first
\* search directory, in precedence order, that holds a file of that name
C38_FirstDir ==
  /\ [][RemoveFinds => loc'.allQuadletPaths = <<FirstHolder(op.args[1])>>]_vars
  /\ [][PrintFinds =>
          /\ read'.err \in {"", "reading quadlet contents"}
          /\ read'.err = "" => read'.contents = fs[FirstHolder(read'.name)]]_vars

\* C38, first part, when no search directory before that one is a regular
\* file
C38_FirstDirReached ==
  /\ [][(RemoveFinds /\ ~BlockedBefore(op.args[1]))
          => loc'.allQuadletPaths = <<FirstHolder(op.args[1])>>]_vars
  /\ [][(PrintFinds /\ ~BlockedBefore(read'.name)) =>
          /\ read'.err \in {"", "reading quadlet contents"}
          /\ read'.err = "" => read'.contents = fs[FirstHolder(read'.name)]]_vars

\* C38, first part, otherwise: the name resolves to no file
C38_Blocked ==
  /\ [][(ResolvesOne /\ IsExtSupported(op.args[1]) /\ BlockedBefore(op.args[1]))
          => loc'.allQuadletPaths = <<>>]_vars
  /\ [][(PrintReturns /\ IsExtSupported(read'.name) /\ BlockedBefore(read'.name))
          => read'.err = "cannot stat quadlet" /\ read'.contents = ""]_vars

\* C38, second part: a Remove of one name deletes at most one file, the one
\* the name resolved to, and no step of the call takes another file of that
\* name, or any other file, off the disk
C38_AtMostOne ==
  /\ [](RemoveOfOne =>
          /\ Cardinality(DeletedPaths) <= 1
          /\ DeletedPaths \subseteq Range(loc.allQuadletPaths)
          /\ Len(loc.allQuadletPaths) <= 1)
  /\ [][(RemoveOfOne /\ pc \notin {"idle", "done", "panicked"} /\ envSteps' = envSteps)
          => \A p \in DiskPaths : fs'[p] # fs[p] => p \in Range(loc.allQuadletPaths)]_vars

\* C38, third part: a name with an unsupported extension resolves to no
\* file, also when a file of that name is in a search directory
C38_Unsupported ==
  /\ [][(ResolvesOne /\ ~IsExtSupported(op.args[1])) => loc'.allQuadletPaths = <<>>]_vars
  /\ [][(PrintReturns /\ ~IsExtSupported(read'.name))
          => /\ read'.err = "not a supported quadlet file type"
             /\ read'.contents = ""]_vars

\* C38 as stated
C38_Original == C38_FirstDir /\ C38_AtMostOne /\ C38_Unsupported

\* C38: name resolution in Remove and Print picks the first search directory,
\* in precedence order, that holds a file of the requested name, unless a
\* directory before it is a regular file, and then the name resolves to no
\* file; a Remove of one name deletes at most that one file and leaves the
\* files of that name in later directories; a name with an unsupported
\* extension resolves to no file
C38_Claim == C38_FirstDirReached /\ C38_Blocked /\ C38_AtMostOne /\ C38_Unsupported

\* a Remove of one name has deleted the file of the first directory, and a
\* file of that name is still in a later one
C38_Witness ==
  /\ RemoveOfOne /\ pc = "done"
  /\ \E i, j \in 1..Len(GetUnitDirs(rootless)) :
       /\ i < j
       /\ DeletedPaths = {Join(GetUnitDirs(rootless)[i], op.args[1])}
       /\ Exists(Join(GetUnitDirs(rootless)[j], op.args[1]))

====
